---- MODULE Spec2Model ----
(***************************************************************************)
(* Model of tsproc (lib/tsproc.js, lib/tsreductions.js, lib/tsinterp.js):  *)
(* a set of timeseries, the operations that transform it, the interpolant  *)
(* of one series, and the process() pipeline.                              *)
(***************************************************************************)
EXTENDS Integers, Sequences, FiniteSets, TLC

VARIABLES
    timeseries,      \* this._timeseries: a sequence of series, each a sequence of documents
    config,          \* this._config: one schema per series
    op,              \* the last public call and its arguments
    callbacks,       \* the error argument of every callback invocation of the last call
    thrown,          \* TRUE when the last call ended by raising a TypeError
    homog,           \* what the isHomogeneous() call made by the last call returned
    rnd,             \* the three indexes drawn by the last direct isHomogeneous() call
    old_timeseries,  \* this._timeseries when the last call started
    old_config,      \* this._config when the last call started
    smoother,        \* the tsinterp object under study
    smoothed,        \* the last call of smoother.smooth(): date, position evaluated, outcome
    options,         \* the members the constructor derives from the config
    pc,              \* the place process() has reached
    trace            \* the steps process() has called so far

vars == <<timeseries, config, op, callbacks, thrown, homog, rnd,
          old_timeseries, old_config, smoother, smoothed, options, pc, trace>>

(***************************************************************************)
(* Bounds of the model.                                                    *)
(***************************************************************************)
MaxLen == 3      \* longest series drawn by Init
MaxTime == 4     \* instants are drawn from 1..MaxTime
MaxSkip == 2     \* largest window size passed to undersample
MantissaBits == 5  \* significant bits a Number keeps in quantize (a double keeps 53)
MaxDocs == 7     \* longest series checkSimilarity is called on

(***************************************************************************)
(* JavaScript values.  Every value is a record of one shape:               *)
(*   "num"   the number n/d (d > 0, in lowest terms)                       *)
(*   "str"   the string whose characters are s                             *)
(*   "date"  a timestamp string that spells instant n in the format s[1]   *)
(*   "undef" undefined,  "nan" NaN                                         *)
(***************************************************************************)
RECURSIVE Gcd(_, _)
Gcd(a, b) == IF b = 0 THEN a ELSE Gcd(b, a % b)

Abs(x) == IF x < 0 THEN -x ELSE x

Q(n, d) ==
    LET g == Gcd(Abs(n), d)
    IN  [k |-> "num", n |-> n \div g, d |-> d \div g, s |-> <<>>]

Num(n) == Q(n, 1)
Str(s) == [k |-> "str", n |-> 0, d |-> 1, s |-> s]
DateStr(t, fmt) == [k |-> "date", n |-> t, d |-> 1, s |-> <<fmt>>]
Undefined == [k |-> "undef", n |-> 0, d |-> 1, s |-> <<>>]
NaN == [k |-> "nan", n |-> 0, d |-> 1, s |-> <<>>]

Digits == <<"0", "1", "2", "3", "4", "5", "6", "7", "8", "9">>

IsDigit(c) == \E i \in 1..Len(Digits) : Digits[i] = c

DigitValue(c) == (CHOOSE i \in 1..Len(Digits) : Digits[i] = c) - 1

\* String(n) for a natural number n.
RECURSIVE DecStr(_)
DecStr(n) ==
    IF n < 10 THEN <<Digits[n + 1]>>
    ELSE DecStr(n \div 10) \o <<Digits[(n % 10) + 1]>>

\* Number(s) for a string of decimal digits.
RECURSIVE DecVal(_)
DecVal(s) ==
    IF s = <<>> THEN 0
    ELSE 10 * DecVal(SubSeq(s, 1, Len(s) - 1)) + DigitValue(s[Len(s)])

\* if (v): JavaScript truthiness.
Truthy(v) ==
    CASE v.k = "num" -> v.n # 0
      [] v.k = "str" -> v.s # <<>>
      [] v.k = "date" -> TRUE
      [] OTHER -> FALSE

\* Number(v), the conversion applied by the arithmetic operators.
ToNumber(v) ==
    CASE v.k = "num" -> v
      [] v.k = "str" ->
            IF \A i \in 1..Len(v.s) : IsDigit(v.s[i]) THEN Num(DecVal(v.s)) ELSE NaN
      [] OTHER -> NaN

\* String(v) for the values the reductions can concatenate.
ToStr(v) ==
    CASE v.k = "str" -> v.s
      [] v.k = "num" /\ v.d = 1 /\ v.n >= 0 -> DecStr(v.n)
      [] OTHER -> <<"?">>

\* x + y: addition of numbers, concatenation as soon as one side is a string.
JsAdd(x, y) ==
    IF x.k = "num" /\ y.k = "num" THEN Q(x.n * y.d + y.n * x.d, x.d * y.d)
    ELSE IF x.k \in {"str", "date"} \/ y.k \in {"str", "date"}
         THEN Str(ToStr(x) \o ToStr(y))
         ELSE NaN

\* x / c for a positive integer c.
JsDiv(x, c) ==
    LET a == ToNumber(x)
    IN  IF a.k = "num" THEN Q(a.n, a.d * c) ELSE NaN

\* x < y on numbers; a comparison with NaN or undefined is false.
NumLess(x, y) ==
    LET a == ToNumber(x)
        b == ToNumber(y)
    IN  a.k = "num" /\ b.k = "num" /\ a.n * b.d < b.n * a.d

CharRank(c) == IF IsDigit(c) THEN DigitValue(c) ELSE 10 + (IF c = "x" THEN 1 ELSE 0)

\* x < y on two strings: lexicographic order.
RECURSIVE StrLess(_, _)
StrLess(s, t) ==
    IF t = <<>> THEN FALSE
    ELSE IF s = <<>> THEN TRUE
    ELSE IF s[1] # t[1] THEN CharRank(s[1]) < CharRank(t[1])
    ELSE StrLess(Tail(s), Tail(t))

\* x < y as the < operator of JavaScript evaluates it.
JsLess(x, y) ==
    IF x.k = "str" /\ y.k = "str" THEN StrLess(x.s, y.s) ELSE NumLess(x, y)

\* isNaN(parseFloat(v)): parseFloat reads the longest numeric prefix.
ParseFloatIsNaN(v) ==
    CASE v.k = "num" -> FALSE
      [] v.k = "str" -> v.s = <<>> \/ ~IsDigit(v.s[1])
      [] v.k = "date" -> FALSE
      [] OTHER -> TRUE

(***************************************************************************)
(* The series store: documents, schemas and the getters of tsproc.         *)
(* A document is a function from field names to values.                    *)
(***************************************************************************)
ISO_FORMAT == "YYYY-MM-DDTHH:mm:ss.SSSSZ"
TIMESTAMP_FIELD == "time"

\* doc[f]: undefined when the document has no such field.
Get(doc, f) == IF f \in DOMAIN doc THEN doc[f] ELSE Undefined

\* doc[f] = v
Put(doc, f, v) == [g \in (DOMAIN doc) \cup {f} |-> IF g = f THEN v ELSE doc[g]]

\* delete doc[f]
Delete(doc, f) == [g \in (DOMAIN doc) \ {f} |-> doc[g]]

getNbTS(ts) == Len(ts)

getTSSize(ts, i) == Len(ts[i])

\* Documents are indexed from 0 in the code and from 1 in a TLA+ sequence.
getDoc(ts, i, j) == ts[i][j + 1]

HasDoc(ts, i, j) == j >= 0 /\ j < Len(ts[i])

getTimestampField(cfg, i) == cfg[i].timestamp.name

getTimestampFormat(cfg, i) == cfg[i].timestamp.format

RECURSIVE FieldNames(_)
FieldNames(fields) ==
    IF fields = <<>> THEN <<>> ELSE <<Head(fields).name>> \o FieldNames(Tail(fields))

getFields(cfg, i) == FieldNames(cfg[i].fields)

IsISOFormat(format) == format = ISO_FORMAT \/ format \in {"ISO", "iso"}

IsUNIXFormat(format) == format \in {"UNIX", "unix"}

\* isISO(ts_index) and isISO(): only the schema is looked at.
isISO(cfg, i) == IsISOFormat(getTimestampFormat(cfg, i))

isISOAll(cfg) == \A i \in 1..Len(cfg) : isISO(cfg, i)

isUNIX(cfg, i) == IsUNIXFormat(getTimestampFormat(cfg, i))

\* A moment.js date: an instant, or an invalid date.
Moment(t) == [valid |-> TRUE, t |-> t]
InvalidMoment == [valid |-> FALSE, t |-> 0]

\* moment.utc(v, format, true): strict parsing of a string in the given format.
ParseMoment(v, isoFormat, format) ==
    IF v.k = "date" /\ (IF isoFormat THEN IsISOFormat(v.s[1]) ELSE v.s[1] = format)
    THEN Moment(v.n)
    ELSE InvalidMoment

\* getTimestamp(ts_index, doc_index) of a document that exists.
getTimestamp(ts, cfg, i, j) ==
    LET v == Get(getDoc(ts, i, j), getTimestampField(cfg, i))
    IN  IF isISO(cfg, i) THEN ParseMoment(v, TRUE, ISO_FORMAT)
        ELSE IF isUNIX(cfg, i)
             THEN (IF v.k = "num" /\ v.d = 1 THEN Moment(v.n) ELSE InvalidMoment)
             ELSE ParseMoment(v, FALSE, getTimestampFormat(cfg, i))

\* getTS(): the single series when there is one, the array of series otherwise.
getTS(ts) == IF getNbTS(ts) = 1 THEN ts[1] ELSE ts

\* getEmptyDoc(ts_index, doc_index): a clone with every declared field set to 0.
RECURSIVE ZeroFields(_, _)
ZeroFields(doc, fields) ==
    IF fields = <<>> THEN doc
    ELSE ZeroFields(Put(doc, Head(fields), Num(0)), Tail(fields))

getEmptyDoc(ts, cfg, i, j) == ZeroFields(getDoc(ts, i, j), getFields(cfg, i))

(***************************************************************************)
(* isHomogeneous().  The three indexes come from Math.random(); the model  *)
(* takes them as arguments and the actions draw them.  The outcome is      *)
(* "true", "false" or "throw" (a TypeError on reading a missing document). *)
(***************************************************************************)
\* Math.floor(Math.random() * m)
RandomIndexes(m) == IF m = 0 THEN {0} ELSE 0..(m - 1)

\* The draws isHomogeneous() can make on ts; <<>> when it draws nothing.
Draws(ts) ==
    IF getNbTS(ts) > 1 /\ Cardinality({Len(ts[i]) : i \in 1..Len(ts)}) = 1
    THEN RandomIndexes(Len(ts[1])) \X RandomIndexes(Len(ts[1])) \X RandomIndexes(Len(ts[1]))
    ELSE {<<>>}

isHomogeneous(ts, cfg, draw) ==
    LET nb_ts == getNbTS(ts)
        sizes == {getTSSize(ts, i) : i \in 1..nb_ts}
        dates == {getTimestamp(ts, cfg, i, draw[x]) : i \in 1..nb_ts, x \in 1..3}
        nb_uniques == Cardinality(dates)
    IN  IF nb_ts = 1 THEN "true"
        ELSE IF Cardinality(sizes) = 1
             THEN IF \E i \in 1..nb_ts, x \in 1..3 : ~HasDoc(ts, i, draw[x])
                  THEN "throw"
                  ELSE IF nb_uniques > 0 /\ nb_uniques < 4 THEN "true" ELSE "false"
             ELSE "false"

\* A call that uses isHomogeneous() depends on the draw through its outcome
\* alone: the outcomes the draws can give, and a draw giving each.
\* The outcome does not depend on the order of the three indexes.
OrderedDraws(ts) ==
    {draw \in Draws(ts) : draw = <<>> \/ (draw[1] <= draw[2] /\ draw[2] <= draw[3])}

HomogeneousOutcomes(ts, cfg) == {isHomogeneous(ts, cfg, draw) : draw \in OrderedDraws(ts)}

DrawGiving(ts, cfg, h) == CHOOSE draw \in OrderedDraws(ts) : isHomogeneous(ts, cfg, draw) = h

(***************************************************************************)
(* isFieldNominal() and isNominal().                                       *)
(***************************************************************************)
\* isFieldNominal(ts_index, field) on a series that has a first document:
\* undefined (falsy) when the first value is falsy.
isFieldNominal(ts, i, field) ==
    LET v == Get(getDoc(ts, i, 0), field)
    IN  Truthy(v) /\ ParseFloatIsNaN(v)

\* The (series, field) pairs in the order isNominal() visits them.
RECURSIVE FieldVisits(_, _)
FieldVisits(cfg, i) ==
    IF i > Len(cfg) THEN <<>>
    ELSE [x \in 1..Len(cfg[i].fields) |-> <<i, cfg[i].fields[x].name>>]
         \o FieldVisits(cfg, i + 1)

RECURSIVE NominalScan(_, _)
NominalScan(ts, visits) ==
    IF visits = <<>> THEN "false"
    ELSE IF ~HasDoc(ts, Head(visits)[1], 0) THEN "throw"
    ELSE IF isFieldNominal(ts, Head(visits)[1], Head(visits)[2]) THEN "true"
    ELSE NominalScan(ts, Tail(visits))

isNominal(ts, cfg) == NominalScan(ts, FieldVisits(cfg, 1))

(***************************************************************************)
(* tsreductions.js.  Each reduction returns [kind |-> "ts", ts |-> ...],   *)
(* [kind |-> "null"] (nothing to recharge) or [kind |-> "throw"].          *)
(***************************************************************************)
ReducedTo(ts) == [kind |-> "ts", ts |-> ts]
ReducedNull == [kind |-> "null", ts |-> <<>>]
ReducedThrow == [kind |-> "throw", ts |-> <<>>]

ReduceEnum == [skip |-> 0, sum |-> 1, avg |-> 2, max |-> 3, min |-> 4]

\* Faulty variant of SkipFrom: one document too far between two kept ones.
RECURSIVE SkipFromWide(_, _, _, _)
SkipFromWide(ts, i, j, skipsize) ==
    IF j >= getTSSize(ts, i) THEN <<>>
    ELSE <<getDoc(ts, i, j)>> \o SkipFromWide(ts, i, j + skipsize + 1, skipsize)

\* for (j = 0; j < ts_size; j += skipsize) push(getDoc(i, j))
RECURSIVE SkipFrom(_, _, _, _)
SkipFrom(ts, i, j, skipsize) ==
    IF j >= getTSSize(ts, i) THEN <<>>
    ELSE <<getDoc(ts, i, j)>> \o SkipFrom(ts, i, j + skipsize, skipsize)

reduceSkip(ts, cfg, skipsize, draw) ==
    LET h == isHomogeneous(ts, cfg, draw)
    IN  IF h = "throw" THEN ReducedThrow
        ELSE IF h = "true"
             THEN ReducedTo([i \in 1..getNbTS(ts) |-> SkipFrom(ts, i, 0, skipsize)])
             ELSE ReducedNull

\* getFields(i).forEach(field => acc[field] += doc[field])
RECURSIVE AddFields(_, _, _)
AddFields(acc, doc, fields) ==
    IF fields = <<>> THEN acc
    ELSE AddFields(Put(acc, Head(fields), JsAdd(Get(acc, Head(fields)), Get(doc, Head(fields)))),
                   doc, Tail(fields))

\* for (k = j; k < j + skipsize; k++) { if (k >= ts_size) break; ... }
\* returns the accumulated document and the value of k on leaving the loop.
RECURSIVE FoldWindow(_, _, _, _, _, _)
FoldWindow(ts, cfg, i, acc, k, end) ==
    IF k >= end \/ k >= getTSSize(ts, i) THEN [doc |-> acc, k |-> k]
    ELSE FoldWindow(ts, cfg, i, AddFields(acc, getDoc(ts, i, k), getFields(cfg, i)), k + 1, end)

RECURSIVE SumFrom(_, _, _, _, _)
SumFrom(ts, cfg, i, j, skipsize) ==
    IF j >= getTSSize(ts, i) THEN <<>>
    ELSE <<FoldWindow(ts, cfg, i, getEmptyDoc(ts, cfg, i, j), j, j + skipsize).doc>>
         \o SumFrom(ts, cfg, i, j + skipsize, skipsize)

\* Faulty variant of reduceSum: the isHomogeneous() gate is missing.
reduceSumUngated(ts, cfg, skipsize, draw) ==
    ReducedTo([i \in 1..getNbTS(ts) |-> SumFrom(ts, cfg, i, 0, skipsize)])

reduceSum(ts, cfg, skipsize, draw) ==
    LET h == isHomogeneous(ts, cfg, draw)
    IN  IF h = "throw" THEN ReducedThrow
        ELSE IF h = "true"
             THEN ReducedTo([i \in 1..getNbTS(ts) |-> SumFrom(ts, cfg, i, 0, skipsize)])
             ELSE ReducedNull

\* getFields(i).forEach(field => avg_doc[field] = avg_doc[field] / (k - j))
RECURSIVE DivFields(_, _, _)
DivFields(acc, fields, count) ==
    IF fields = <<>> THEN acc
    ELSE DivFields(Put(acc, Head(fields), JsDiv(Get(acc, Head(fields)), count)),
                   Tail(fields), count)

\* Faulty variant of AvgWindowDivisor: the window size, also for a short last window.
AvgWindowDivisorFull(j, k, skipsize) == skipsize

\* avg_doc[field] / (k - j), k being the loop variable after the window's loop
AvgWindowDivisor(j, k, skipsize) == k - j

AvgWindow(ts, cfg, i, j, skipsize) ==
    LET w == FoldWindow(ts, cfg, i, getEmptyDoc(ts, cfg, i, j), j, j + skipsize)
    IN  DivFields(w.doc, getFields(cfg, i), AvgWindowDivisor(j, w.k, skipsize))

RECURSIVE AvgFrom(_, _, _, _, _)
AvgFrom(ts, cfg, i, j, skipsize) ==
    IF j >= getTSSize(ts, i) THEN <<>>
    ELSE <<AvgWindow(ts, cfg, i, j, skipsize)>> \o AvgFrom(ts, cfg, i, j + skipsize, skipsize)

reduceAvg(ts, cfg, skipsize, draw) ==
    LET h == isHomogeneous(ts, cfg, draw)
    IN  IF h = "throw" THEN ReducedThrow
        ELSE IF h = "true"
             THEN ReducedTo([i \in 1..getNbTS(ts) |-> AvgFrom(ts, cfg, i, 0, skipsize)])
             ELSE ReducedNull

\* for (k = j + 1; k < j + skipsize; k++) { if (k >= ts_size) break;
\*     if (max_doc[target_field] < doc[target_field]) max_doc = doc; }
\* Faulty variant of MaxWindow: among equal values the latest document wins.
RECURSIVE MaxWindowLatest(_, _, _, _, _, _)
MaxWindowLatest(ts, i, max_doc, k, end, target_field) ==
    IF k >= end \/ k >= getTSSize(ts, i) THEN max_doc
    ELSE MaxWindowLatest(ts, i,
                   IF ~JsLess(Get(getDoc(ts, i, k), target_field), Get(max_doc, target_field))
                   THEN getDoc(ts, i, k) ELSE max_doc,
                   k + 1, end, target_field)

RECURSIVE MaxWindow(_, _, _, _, _, _)
MaxWindow(ts, i, max_doc, k, end, target_field) ==
    IF k >= end \/ k >= getTSSize(ts, i) THEN max_doc
    ELSE MaxWindow(ts, i,
                   IF JsLess(Get(max_doc, target_field), Get(getDoc(ts, i, k), target_field))
                   THEN getDoc(ts, i, k) ELSE max_doc,
                   k + 1, end, target_field)

RECURSIVE MaxFrom(_, _, _, _, _)
MaxFrom(ts, i, j, skipsize, target_field) ==
    IF j >= getTSSize(ts, i) THEN <<>>
    ELSE <<MaxWindow(ts, i, getDoc(ts, i, j), j + 1, j + skipsize, target_field)>>
         \o MaxFrom(ts, i, j + skipsize, skipsize, target_field)

\* A field name is a string; "" stands for an unset (null, undefined, '') name.
NoField == ""

\* Faulty variant of reduceMax: the target field is not tested.
reduceMaxNoTargetCheck(ts, cfg, skipsize, target_field, draw) ==
    LET h == isHomogeneous(ts, cfg, draw)
    IN  IF h = "throw" THEN ReducedThrow
        ELSE IF h = "true"
             THEN ReducedTo([i \in 1..getNbTS(ts) |->
                                MaxFrom(ts, i, 0, skipsize, target_field)])
             ELSE ReducedNull

reduceMax(ts, cfg, skipsize, target_field, draw) ==
    LET h == isHomogeneous(ts, cfg, draw)
    IN  IF h = "throw" THEN ReducedThrow
        ELSE IF h = "true" /\ target_field # NoField
             THEN ReducedTo([i \in 1..getNbTS(ts) |->
                                MaxFrom(ts, i, 0, skipsize, target_field)])
             ELSE ReducedNull

RECURSIVE MinWindow(_, _, _, _, _, _)
MinWindow(ts, i, min_doc, k, end, target_field) ==
    IF k >= end \/ k >= getTSSize(ts, i) THEN min_doc
    ELSE MinWindow(ts, i,
                   IF JsLess(Get(getDoc(ts, i, k), target_field), Get(min_doc, target_field))
                   THEN getDoc(ts, i, k) ELSE min_doc,
                   k + 1, end, target_field)

RECURSIVE MinFrom(_, _, _, _, _)
MinFrom(ts, i, j, skipsize, target_field) ==
    IF j >= getTSSize(ts, i) THEN <<>>
    ELSE <<MinWindow(ts, i, getDoc(ts, i, j), j + 1, j + skipsize, target_field)>>
         \o MinFrom(ts, i, j + skipsize, skipsize, target_field)

reduceMin(ts, cfg, skipsize, target_field, draw) ==
    LET h == isHomogeneous(ts, cfg, draw)
    IN  IF h = "throw" THEN ReducedThrow
        ELSE IF h = "true" /\ target_field # NoField
             THEN ReducedTo([i \in 1..getNbTS(ts) |->
                                MinFrom(ts, i, 0, skipsize, target_field)])
             ELSE ReducedNull

\* ReduceFunc[type].call(this, skipsize, target_field)
ReduceFunc(type, ts, cfg, skipsize, target_field, draw) ==
    CASE type = ReduceEnum.skip -> reduceSkip(ts, cfg, skipsize, draw)
      [] type = ReduceEnum.sum -> reduceSum(ts, cfg, skipsize, draw)
      [] type = ReduceEnum.avg -> reduceAvg(ts, cfg, skipsize, draw)
      [] type = ReduceEnum.max -> reduceMax(ts, cfg, skipsize, target_field, draw)
      [] type = ReduceEnum.min -> reduceMin(ts, cfg, skipsize, target_field, draw)

(***************************************************************************)
(* The outcome of a public call: the new series and schemas, the error     *)
(* argument of each callback invocation ("null" for no error), whether a   *)
(* TypeError escaped, and what the call's isHomogeneous() returned         *)
(* ("none" when the call reached no isHomogeneous()).                      *)
(***************************************************************************)
Outcome(ts, cfg, cbs, thr, h) ==
    [ts |-> ts, cfg |-> cfg, callbacks |-> cbs, thrown |-> thr, homog |-> h]

NominalError == "Only the skip can be applied to the nominal timeseries"

\* Faulty variant of WindowApplies: a window of one document counts.
WindowAppliesFromOne(skipsize) == skipsize # 0 /\ skipsize >= 1

\* if (skipsize && skipsize > 1)
WindowApplies(skipsize) == skipsize # 0 /\ skipsize > 1

\* undersample(type, skipsize, target_field, callback).  skipsize 0 stands for
\* 0, null and undefined alike: the code's only test is (skipsize && skipsize > 1).
undersample(ts, cfg, type, skipsize, target_field, draw) ==
    IF WindowApplies(skipsize)
    THEN LET nominal == isNominal(ts, cfg)
             reduced == ReduceFunc(type, ts, cfg, skipsize, target_field, draw)
             h == isHomogeneous(ts, cfg, draw)
         IN  IF nominal = "throw" THEN Outcome(ts, cfg, <<>>, TRUE, "none")
             ELSE IF nominal = "true" /\ type # ReduceEnum.skip
                  THEN Outcome(ts, cfg, <<NominalError>>, FALSE, "none")
             ELSE IF reduced.kind = "throw" THEN Outcome(ts, cfg, <<>>, TRUE, h)
             ELSE IF reduced.kind = "ts" THEN Outcome(reduced.ts, cfg, <<"null">>, FALSE, h)
             ELSE Outcome(ts, cfg, <<"null">>, FALSE, h)
    ELSE Outcome(ts, cfg, <<"null">>, FALSE, "none")

\* underscore.extend(doc, src)
Extend(doc, src) ==
    [g \in (DOMAIN doc) \cup (DOMAIN src) |-> IF g \in DOMAIN src THEN src[g] ELSE doc[g]]

EmptyDoc == [g \in {} |-> Undefined]

\* The inner loop of merge(): fuse document j of the series i, i+1, ...
RECURSIVE FuseDocs(_, _, _, _, _)
FuseDocs(ts, cfg, doc, i, j) ==
    IF i > getNbTS(ts) THEN doc
    ELSE FuseDocs(ts, cfg,
                  Delete(Extend(doc, getDoc(ts, i, j)), getTimestampField(cfg, i)),
                  i + 1, j)

MergedDoc(ts, cfg, j) ==
    Put(FuseDocs(ts, cfg, EmptyDoc, 1, j), TIMESTAMP_FIELD,
        Get(getDoc(ts, 1, j), getTimestampField(cfg, 1)))

RECURSIVE AllFields(_, _)
AllFields(cfg, i) ==
    IF i > Len(cfg) THEN <<>> ELSE cfg[i].fields \o AllFields(cfg, i + 1)

\* mergeConfigs(), called once this._timeseries holds the single merged series.
mergeConfigs(cfg) ==
    <<[timestamp |-> [cfg[1].timestamp EXCEPT !.name = TIMESTAMP_FIELD],
       fields |-> AllFields(cfg, 1)]>>

merge(ts, cfg, draw) ==
    LET h == isHomogeneous(ts, cfg, draw)
    IN  IF getNbTS(ts) = 1 THEN Outcome(ts, cfg, <<"null">>, FALSE, "none")
        ELSE IF h = "throw" THEN Outcome(ts, cfg, <<>>, TRUE, h)
        ELSE IF h = "true"
             THEN Outcome(<<[j \in 1..Len(ts[1]) |-> MergedDoc(ts, cfg, j - 1)]>>,
                          mergeConfigs(cfg), <<"null">>, FALSE, h)
             ELSE Outcome(ts, cfg, <<"null">>, FALSE, h)

(***************************************************************************)
(* tsinterp: the interpolant of one series.  The constructor extracts the  *)
(* value vectors and the dates and hands the vectors to Smooth.js;         *)
(* smooth(date) turns a date into a position on that curve.                *)
(***************************************************************************)
INTERP_METHODS == <<"linear", "cubic", "lanczos", "nearest">>

\* The value of the learned curve of a field at a fractional position.
Curve(method, field, pos) == [k |-> "curve", n |-> pos.n, d |-> pos.d, s |-> <<method, field>>]

\* extractValues(): one vector per document, one entry per declared field.
extractValues(ts, fields) ==
    [i \in 1..Len(ts) |-> [j \in 1..Len(fields) |-> Get(ts[i], fields[j].name)]]

\* extractDates(): moment.utc(doc[timestamp_field], null, true)
extractDates(ts, timestamp_field) ==
    [i \in 1..Len(ts) |-> ParseMoment(Get(ts[i], timestamp_field), TRUE, ISO_FORMAT)]

\* new smooth.Smooth(values, ...) raises on input that is not numeric.
SmoothAccepts(values) ==
    \A i \in 1..Len(values) : \A j \in 1..Len(values[i]) : values[i][j].k = "num"

\* this._smooth(pos): clip 'zero' outside the samples, the stored vector at
\* an integer position, the curve of the method in between.
SmoothAt(sm, pos) ==
    IF pos.n < 0 \/ pos.n > (sm._nb_ts - 1) * pos.d
    THEN [j \in 1..Len(sm._fields) |-> Num(0)]
    ELSE IF pos.d = 1
         THEN sm._values_array[pos.n + 1]
         ELSE [j \in 1..Len(sm._fields) |-> Curve(sm._interp_type, sm._fields[j].name, pos)]

\* The object before the constructor ran, and the object a constructor that
\* returned early leaves behind: no member is set.
Unset(isBuilt, cbs) ==
    [built |-> isBuilt, _learned |-> "undefined", _timeseries |-> <<>>, _nb_ts |-> 0,
     _timestamp_field |-> NoField, _fields |-> <<>>, _interp_type |-> "undefined",
     _values_array |-> <<>>, _dates_array |-> <<>>, callbacks |-> cbs]

NoSmoother == Unset(FALSE, <<>>)

\* new tsinterp(timeseries, description, callback) for a defined series and a
\* description that names its timestamp field and its fields.
tsinterp(ts, description) ==
    IF Len(ts) < 2 THEN Unset(TRUE, <<"timeseries should have multiple documents">>)
    ELSE LET type == IF description.type < 0 \/ description.type > 3
                     THEN 0 ELSE description.type
             values == extractValues(ts, description.fields)
             learned == SmoothAccepts(values)
         IN  [built |-> TRUE,
              _learned |-> IF learned THEN "true" ELSE "false",
              _timeseries |-> ts,
              _nb_ts |-> Len(ts),
              _timestamp_field |-> description.timestamp_field,
              _fields |-> description.fields,
              _interp_type |-> INTERP_METHODS[type + 1],
              _values_array |-> values,
              _dates_array |-> extractDates(ts, description.timestamp_field),
              callbacks |-> IF learned THEN <<"null">> ELSE <<"LearnError", "null">>]

\* createDoc(time, values)
RECURSIVE FillDoc(_, _, _, _)
FillDoc(doc, fields, values, index) ==
    IF index > Len(fields) THEN doc
    ELSE FillDoc(Put(doc, fields[index].name, values[index]), fields, values, index + 1)

createDoc(sm, time, values) ==
    FillDoc(Put(EmptyDoc, sm._timestamp_field, time), sm._fields, values, 1)

\* The outcome of one smooth() call: the error and the document handed to
\* the callback, and the position at which the curve was evaluated.
Smoothed(date, error, position, doc, raised) ==
    [called |-> TRUE, date |-> date, error |-> error, position |-> position,
     doc |-> doc, thrown |-> raised]

NoSmoothed ==
    [called |-> FALSE, date |-> Undefined, error |-> "none", position |-> Undefined,
     doc |-> EmptyDoc, thrown |-> FALSE]

EvaluatedAt(sm, date, pos) ==
    Smoothed(date, "null", pos, createDoc(sm, date, SmoothAt(sm, pos)), FALSE)

\* do { diff = dates[i].diff(date); i++; } while (diff < 0)
RECURSIVE Scan(_, _, _)
\* A read past the last sample gives undefined, and undefined.diff raises.
Scan(dates, t, i) ==
    LET diff == dates[i + 1].t - t
    IN  IF i >= Len(dates) THEN [i |-> i + 1, diff |-> 0, raised |-> TRUE]
        ELSE IF diff < 0 THEN Scan(dates, t, i + 1)
        ELSE [i |-> i + 1, diff |-> diff, raised |-> FALSE]

\* The position of a date before the first sample and after the last one.
BeforeFirstPosition(nb_ts) == 0 - 1

\* Faulty variant of AfterLastPosition: the last sample.
AfterLastPositionInside(nb_ts) == nb_ts - 1

AfterLastPosition(nb_ts) == nb_ts

\* Faulty variant of ExactPosition: the index after the increment.
ExactPositionNext(i) == i

\* The position of a date that is the date of the sample the scan stopped at.
ExactPosition(i) == i - 1

\* Faulty variant of FractionalPosition: counted from the later sample.
FractionalPositionFromLater(dates, i, diff) ==
    LET delta == dates[i].t - dates[i - 1].t
    IN  Q((i - 1) * delta + (delta - diff), delta)

\* index = i - 2 + (delta - diff)/delta
FractionalPosition(dates, i, diff) ==
    LET delta == dates[i].t - dates[i - 1].t
    IN  Q((i - 2) * delta + (delta - diff), delta)

\* smoother.smooth(date, callback) on samples whose timestamps are ISO dates.
smooth(sm, date) ==
    IF ~Truthy(date) THEN Smoothed(date, "Date is unset", Undefined, EmptyDoc, FALSE)
    ELSE IF ~ParseMoment(date, TRUE, ISO_FORMAT).valid
    THEN Smoothed(date, "Date is not valid", Undefined, EmptyDoc, FALSE)
    ELSE IF sm._learned = "false"
    THEN Smoothed(date, "Datapoints are not learned yet", Undefined, EmptyDoc, FALSE)
    ELSE IF sm._learned = "undefined"
    THEN Smoothed(date, "none", Undefined, EmptyDoc, TRUE)
    ELSE LET t == ParseMoment(date, TRUE, ISO_FORMAT).t
             dates == sm._dates_array
         IN  IF dates[1].t - t > 0
             THEN EvaluatedAt(sm, date, Num(BeforeFirstPosition(sm._nb_ts)))
             ELSE IF dates[sm._nb_ts].t - t < 0
             THEN EvaluatedAt(sm, date, Num(AfterLastPosition(sm._nb_ts)))
             ELSE LET stop == Scan(dates, t, 0)
                  IN  IF stop.raised THEN Smoothed(date, "none", Undefined, EmptyDoc, TRUE)
                      ELSE IF stop.diff = 0
                      THEN EvaluatedAt(sm, date, Num(ExactPosition(stop.i)))
                      ELSE EvaluatedAt(sm, date, FractionalPosition(dates, stop.i, stop.diff))

(***************************************************************************)
(* The steps of the pipeline that work on one series at a time: isValid(), *)
(* cut(), toISO(), renameField() and quantize().  The timestamps of the    *)
(* documents after the first one of each series are dates that parse.      *)
(***************************************************************************)
\* isValid(): the first document of each series, in order.
RECURSIVE isValidFrom(_, _, _)
isValidFrom(ts, cfg, i) ==
    IF i > getNbTS(ts) THEN "true"
    ELSE IF ~HasDoc(ts, i, 0) THEN "throw"
    ELSE IF ~getTimestamp(ts, cfg, i, 0).valid THEN "false"
    ELSE isValidFrom(ts, cfg, i + 1)

isValid(ts, cfg) == isValidFrom(ts, cfg, 1)

\* moment.utc(new Date(border))
BorderMoment(border) == IF border.k = "date" THEN Moment(border.n) ELSE InvalidMoment

\* moment.min(dates) and moment.max(dates): an invalid date wins.
MomentMin(dates) ==
    IF \E d \in dates : ~d.valid THEN InvalidMoment
    ELSE CHOOSE d \in dates : \A e \in dates : d.t <= e.t

MomentMax(dates) ==
    IF \E d \in dates : ~d.valid THEN InvalidMoment
    ELSE CHOOSE d \in dates : \A e \in dates : d.t >= e.t

\* getMinDate(), getMaxDate(): over the first, resp. last, document of each series.
getMinDate(ts, cfg) == MomentMin({getTimestamp(ts, cfg, i, 0) : i \in 1..getNbTS(ts)})

getMaxDate(ts, cfg) ==
    MomentMax({getTimestamp(ts, cfg, i, getTSSize(ts, i) - 1) : i \in 1..getNbTS(ts)})

\* cutBellowMin(min_date) on one series: slice from the first document that
\* is not before min_date; nothing is cut when there is none.
cutBellowMin(ts, cfg, i, min_date) ==
    LET reached == {j \in 0..(getTSSize(ts, i) - 1) :
                       getTimestamp(ts, cfg, i, j).valid
                       /\ min_date.t - getTimestamp(ts, cfg, i, j).t <= 0}
    IN  IF reached = {} THEN ts[i]
        ELSE SubSeq(ts[i], (CHOOSE j \in reached : \A x \in reached : j <= x) + 1, Len(ts[i]))

\* cutAboveMax(max_date) on one series: slice up to the last document that
\* is not after max_date; nothing is cut when there is none.
cutAboveMax(ts, cfg, i, max_date) ==
    LET reached == {j \in 0..(getTSSize(ts, i) - 1) :
                       getTimestamp(ts, cfg, i, j).valid
                       /\ max_date.t - getTimestamp(ts, cfg, i, j).t >= 0}
    IN  IF reached = {} THEN ts[i]
        ELSE SubSeq(ts[i], 1, (CHOOSE j \in reached : \A x \in reached : j >= x) + 1)

\* cut(date_borders, callback) with date_borders = [from, to].
cut(ts, cfg, from, to) ==
    LET given == Truthy(from) /\ Truthy(to)
        empty == \E i \in 1..getNbTS(ts) : ts[i] = <<>>
        min_date == IF given THEN BorderMoment(from) ELSE getMinDate(ts, cfg)
        max_date == IF given THEN BorderMoment(to) ELSE getMaxDate(ts, cfg)
        bellow == [i \in 1..getNbTS(ts) |-> cutBellowMin(ts, cfg, i, min_date)]
        above == [i \in 1..getNbTS(ts) |-> cutAboveMax(bellow, cfg, i, max_date)]
    IN  IF ~given /\ empty THEN Outcome(ts, cfg, <<>>, TRUE, "none")
        ELSE IF ~min_date.valid \/ ~max_date.valid
             THEN Outcome(ts, cfg, <<"Invalid borders">>, FALSE, "none")
             ELSE Outcome(above, cfg, <<"null">>, FALSE, "none")

\* toISO(callback): every timestamp becomes date.toISOString(); no callback
\* at all when every schema already declares the ISO format.
toISO(ts, cfg) ==
    IF ~isISOAll(cfg)
    THEN Outcome([i \in 1..getNbTS(ts) |->
                     [j \in 1..Len(ts[i]) |->
                         Put(ts[i][j], getTimestampField(cfg, i),
                             DateStr(getTimestamp(ts, cfg, i, j - 1).t, ISO_FORMAT))]],
                 [i \in 1..Len(cfg) |->
                     IF i <= getNbTS(ts)
                     THEN [cfg[i] EXCEPT !.timestamp.format = ISO_FORMAT] ELSE cfg[i]],
                 <<"null">>, FALSE, "none")
    ELSE Outcome(ts, cfg, <<>>, FALSE, "none")

\* renameField(ts_index, field_name, new_name, callback); the schema's
\* timestamp name is set to new_name once per document.
renameField(ts, cfg, ts_index, field_name, new_name) ==
    Outcome([ts EXCEPT ![ts_index] =
                [j \in 1..Len(ts[ts_index]) |->
                    Put(Delete(ts[ts_index][j], field_name), new_name,
                        Get(ts[ts_index][j], field_name))]],
            IF getTSSize(ts, ts_index) > 0
            THEN [cfg EXCEPT ![ts_index].timestamp.name = new_name] ELSE cfg,
            <<"null">>, FALSE, "none")

QuantTSEnum == [none |-> "none", day |-> "day", month |-> "month", year |-> "year"]

\* An instant counts the months since the first month of a year: the first
\* day of a month, at midnight.
MonthsPerYear == 12

\* moment.utc(year + '-' + month + '-' + day, 'YYYY-MM-DD') after the filter.
QuantizeInstant(t, ts_quantum) ==
    IF ts_quantum = QuantTSEnum.year THEN (t \div MonthsPerYear) * MonthsPerYear ELSE t

\* 2^e
RECURSIVE Pow2(_)
Pow2(e) == IF e = 0 THEN 1 ELSE 2 * Pow2(e - 1)

\* The significand and exponent of n/d > 0: 2^(MantissaBits-1) <= n / (d * 2^e) < 2^MantissaBits.
RECURSIVE Normalized(_, _, _)
Normalized(n, d, e) ==
    IF n >= d * Pow2(MantissaBits) THEN Normalized(n, 2 * d, e + 1)
    ELSE IF n < d * Pow2(MantissaBits - 1) THEN Normalized(2 * n, d, e - 1)
    ELSE [n |-> n, d |-> d, e |-> e]

\* The Number nearest to the rational x, ties to the even significand: the
\* rounding every arithmetic operation on Numbers ends with.
RoundNumber(x) ==
    IF x.n = 0 THEN x
    ELSE LET f == Normalized(Abs(x.n), x.d, 0)
             m == f.n \div f.d
             rest == f.n % f.d
             up == 2 * rest > f.d \/ (2 * rest = f.d /\ m % 2 = 1)
             significand == IF up THEN m + 1 ELSE m
             sign == IF x.n < 0 THEN 0 - 1 ELSE 1
         IN  IF f.e >= 0 THEN Q(sign * significand * Pow2(f.e), 1)
             ELSE Q(sign * significand, Pow2(0 - f.e))

\* Math.floor(v/quantum)*quantum: the quotient is rounded to a Number, then
\* floored, and the product is rounded to a Number.
FloorTo(v, quantum) ==
    LET a == ToNumber(v)
        quotient == RoundNumber(Q(a.n * quantum.d, a.d * quantum.n))
    IN  IF v.k = "curve" THEN [v EXCEPT !.s = v.s \o <<"quantized">>]
        ELSE IF a.k = "num"
             THEN RoundNumber(Q((quotient.n \div quotient.d) * quantum.n, quantum.d))
        ELSE NaN

\* getQuantum(0, x) and getTSQuantum()
getQuantum(cfg, i, x) ==
    IF Truthy(cfg[i].fields[x].quantum) THEN cfg[i].fields[x].quantum ELSE Num(0)

getTSQuantum(cfg) ==
    IF cfg[1].timestamp.quantum = "" THEN QuantTSEnum.none ELSE cfg[1].timestamp.quantum

\* The fields quantize() rounds: a quantum and a first value that is not nominal.
QuantizedFields(ts, cfg) ==
    {cfg[1].fields[x].name : x \in {y \in 1..Len(cfg[1].fields) :
        NumLess(Num(0), getQuantum(cfg, 1, y)) /\ ~isFieldNominal(ts, 1, cfg[1].fields[y].name)}}

QuantizeDoc(ts, cfg, j) ==
    LET doc == getDoc(ts, 1, j)
        rounded == [g \in (DOMAIN doc) \cup QuantizedFields(ts, cfg) |->
                       IF g \in QuantizedFields(ts, cfg)
                       THEN FloorTo(Get(doc, g), getQuantum(cfg, 1,
                                CHOOSE x \in 1..Len(cfg[1].fields) : cfg[1].fields[x].name = g))
                       ELSE doc[g]]
    IN  IF getTSQuantum(cfg) # QuantTSEnum.none
        THEN Put(rounded, getTimestampField(cfg, 1),
                 DateStr(QuantizeInstant(getTimestamp(ts, cfg, 1, j).t, getTSQuantum(cfg)),
                         ISO_FORMAT))
        ELSE rounded

\* quantize(callback): only a single series with ISO timestamps is touched.
quantize(ts, cfg) ==
    IF getNbTS(ts) = 1 /\ isISOAll(cfg)
    THEN IF ts[1] = <<>> /\ \E x \in 1..Len(cfg[1].fields) : NumLess(Num(0), getQuantum(cfg, 1, x))
         THEN Outcome(ts, cfg, <<>>, TRUE, "none")
         ELSE Outcome(<<[j \in 1..Len(ts[1]) |-> QuantizeDoc(ts, cfg, j - 1)]>>,
                      cfg, <<"null">>, FALSE, "none")
    ELSE Outcome(ts, cfg, <<"null">>, FALSE, "none")

(***************************************************************************)
(* intersect() and interpolate(): the two ways to align several series.    *)
(* An entry of new_timeseries that the loops never set is modelled as an   *)
(* empty series.                                                           *)
(***************************************************************************)
\* getTSDates(ts_index): the timestamp strings of a series, in order.
getTSDates(ts, cfg, i) == [j \in 1..Len(ts[i]) |-> Get(ts[i][j], getTimestampField(cfg, i))]

Range(seq) == {seq[j] : j \in 1..Len(seq)}

\* underscore.uniq / intersection: first occurrences, in the order of seq.
RECURSIVE UniqIn(_, _, _)
UniqIn(seq, keep, seen) ==
    IF seq = <<>> THEN <<>>
    ELSE IF Head(seq) \in keep /\ Head(seq) \notin seen
         THEN <<Head(seq)>> \o UniqIn(Tail(seq), keep, seen \cup {Head(seq)})
         ELSE UniqIn(Tail(seq), keep, seen)

\* Faulty variant of getSameDates: the dates of the first series, whether or
\* not the other series have them.
getSameDatesOfFirst(ts, cfg) ==
    LET first == getTSDates(ts, cfg, 1)
    IN  IF isISOAll(cfg) /\ getNbTS(ts) > 1 THEN UniqIn(first, Range(first), {}) ELSE first

\* getSameDates(): the dates of the first series that every series has.
getSameDates(ts, cfg) ==
    LET first == getTSDates(ts, cfg, 1)
        common == {d \in Range(first) :
                      \A i \in 2..getNbTS(ts) : d \in Range(getTSDates(ts, cfg, i))}
    IN  IF isISOAll(cfg) /\ getNbTS(ts) > 1 THEN UniqIn(first, common, {}) ELSE first

\* underscore.sortBy(all_dates, valueOf) on the union of the dates.
RECURSIVE SortDates(_)
SortDates(S) ==
    IF S = {} THEN <<>>
    ELSE LET m == CHOOSE x \in S : \A y \in S : x.n <= y.n
         IN  <<m>> \o SortDates(S \ {m})

\* Faulty variant of getAllDates: the dates of the first series only.
getAllDatesOfFirst(ts, cfg) ==
    IF isISOAll(cfg) THEN SortDates(Range(getTSDates(ts, cfg, 1))) ELSE <<>>

\* getAllDates(): every date of every series, once, in chronological order.
getAllDates(ts, cfg) ==
    IF isISOAll(cfg)
    THEN SortDates(UNION {Range(getTSDates(ts, cfg, i)) : i \in 1..getNbTS(ts)})
    ELSE <<>>

\* getDocByTimestamp(ts_index, timestamp, callback): "err" for a timestamp
\* that does not parse, "null" when no document has it, else the first
\* document that has it.
getDocByTimestamp(ts, cfg, i, timestamp) ==
    LET moment_date == ParseMoment(timestamp, TRUE, ISO_FORMAT)
        found == {j \in 0..(getTSSize(ts, i) - 1) :
                     getTimestamp(ts, cfg, i, j).valid
                     /\ getTimestamp(ts, cfg, i, j).t = moment_date.t}
    IN  IF ~moment_date.valid THEN [kind |-> "err", doc |-> EmptyDoc]
        ELSE IF found = {} THEN [kind |-> "null", doc |-> EmptyDoc]
        ELSE [kind |-> "doc", doc |-> getDoc(ts, i, CHOOSE j \in found : \A x \in found : j <= x)]

\* The two loops of intersect(): i and j are the code's indexes, acc the
\* series built so far.  On an error the code sets i = j = nb_ts and the
\* inner loop goes on from j + 1, reading the series of index nb_ts.
RECURSIVE IntersectLoop(_, _, _, _, _, _)
IntersectLoop(ts, cfg, dates, i, j, acc) ==
    IF i >= getNbTS(ts) THEN [ts |-> acc, err |-> FALSE, thrown |-> FALSE]
    ELSE IF j >= Len(dates) THEN IntersectLoop(ts, cfg, dates, i + 1, 0, acc)
    ELSE LET found == getDocByTimestamp(ts, cfg, i + 1, dates[j + 1])
         IN  IF found.kind = "err"
             THEN [ts |-> acc, err |-> TRUE, thrown |-> getNbTS(ts) + 1 < Len(dates)]
             ELSE IF found.kind = "doc"
                  THEN IntersectLoop(ts, cfg, dates, i, j + 1,
                                     [acc EXCEPT ![i + 1] = Append(acc[i + 1], found.doc)])
                  ELSE IntersectLoop(ts, cfg, dates, i, j + 1, acc)

\* intersect(callback)
intersect(ts, cfg) ==
    LET looped == IntersectLoop(ts, cfg, getSameDates(ts, cfg), 0, 0,
                                [i \in 1..getNbTS(ts) |-> <<>>])
    IN  IF getNbTS(ts) > 1
        THEN IF ~isISOAll(cfg)
             THEN Outcome(ts, cfg, <<"Dates should have iso format">>, FALSE, "none")
             ELSE IF looped.thrown THEN Outcome(ts, cfg, <<"Invalid date">>, TRUE, "none")
             ELSE IF looped.err THEN Outcome(looped.ts, cfg, <<"Invalid date", "null">>, FALSE, "none")
             ELSE Outcome(looped.ts, cfg, <<"null">>, FALSE, "none")
        ELSE Outcome(ts, cfg, <<"null">>, FALSE, "none")

InterpEnum == [linear |-> 0, cubic |-> 1, lanczos |-> 2, nearest |-> 3]

\* The smoother interpolate() builds for the series i.
SmootherOf(ts, cfg, i, type) ==
    tsinterp(ts[i], [timestamp_field |-> getTimestampField(cfg, i),
                     fields |-> [x \in 1..Len(cfg[i].fields) |-> [name |-> cfg[i].fields[x].name]],
                     type |-> type])

\* The first loop of interpolate() stops at the first constructor that
\* reports an error: the code's index of that series, nb_ts when there is none.
FirstUnlearned(ts, cfg, type) ==
    LET failed == {i \in 1..getNbTS(ts) : SmootherOf(ts, cfg, i, type)._learned # "true"}
    IN  IF failed = {} THEN getNbTS(ts)
        ELSE (CHOOSE i \in failed : \A x \in failed : i <= x) - 1

\* The second loop of interpolate(): smoothers[i] is unset after the series
\* whose constructor failed; an error of smooth() ends both loops.
RECURSIVE InterpolateLoop(_, _, _, _, _, _, _)
InterpolateLoop(ts, cfg, type, dates, i, j, acc) ==
    IF i >= getNbTS(ts) THEN [ts |-> acc, error |-> "null", thrown |-> FALSE]
    ELSE IF j >= Len(dates) THEN InterpolateLoop(ts, cfg, type, dates, i + 1, 0, acc)
    ELSE IF i > FirstUnlearned(ts, cfg, type) THEN [ts |-> acc, error |-> "null", thrown |-> TRUE]
    ELSE LET made == smooth(SmootherOf(ts, cfg, i + 1, type), dates[j + 1])
         IN  IF made.thrown THEN [ts |-> acc, error |-> "null", thrown |-> TRUE]
             ELSE IF made.error # "null" THEN [ts |-> acc, error |-> made.error, thrown |-> FALSE]
             ELSE InterpolateLoop(ts, cfg, type, dates, i, j + 1,
                                  [acc EXCEPT ![i + 1] = Append(acc[i + 1], made.doc)])

\* interpolate(type, callback)
interpolate(ts, cfg, type) ==
    LET nominal == isNominal(ts, cfg)
        f == FirstUnlearned(ts, cfg, type)
        learning == IF f = getNbTS(ts) THEN <<>>
                    ELSE <<SmootherOf(ts, cfg, f + 1, type).callbacks[1]>>
        looped == InterpolateLoop(ts, cfg, type, getAllDates(ts, cfg), 0, 0,
                                  [i \in 1..getNbTS(ts) |-> <<>>])
        smoothing == IF looped.error = "null" THEN <<>> ELSE <<looped.error>>
    IN  IF getNbTS(ts) > 1
        THEN IF nominal = "throw" THEN Outcome(ts, cfg, <<>>, TRUE, "none")
             ELSE IF nominal = "true"
             THEN Outcome(ts, cfg, <<"Interpolation cannot be used for nominal timeseries">>,
                          FALSE, "none")
             ELSE IF ~isISOAll(cfg)
             THEN Outcome(ts, cfg, <<"Dates should have iso format">>, FALSE, "none")
             ELSE IF looped.thrown THEN Outcome(ts, cfg, learning, TRUE, "none")
             ELSE Outcome(looped.ts, cfg, learning \o smoothing \o <<"null">>, FALSE, "none")
        ELSE Outcome(ts, cfg, <<"null">>, FALSE, "none")

(***************************************************************************)
(* Initial states: a processor constructed over one or two series with     *)
(* chronologically sorted timestamps written in the declared format.       *)
(***************************************************************************)
RECURSIVE SortedSeq(_)
SortedSeq(S) ==
    IF S = {} THEN <<>>
    ELSE LET m == CHOOSE x \in S : \A y \in S : x <= y
         IN  <<m>> \o SortedSeq(S \ {m})

TimeLines == {SortedSeq(S) : S \in {T \in SUBSET (1..MaxTime) : Cardinality(T) <= MaxLen}}

Formats == {"ISO"}

NumericValues == {Num(1), Num(2)}

\* The value columns of the first series: numbers, or a nominal field whose
\* first value is the empty string or not.
ValueColumnsA(len) ==
    [1..len -> NumericValues]
    \cup {[j \in 1..len |-> IF j = 1 THEN first ELSE Str(<<"x">>)] :
             first \in (IF len = 0 THEN {} ELSE {Str(<<>>), Str(<<"x">>)})}

\* The value column of a numeric second series: the instant as a number.
ValueColumnB(times) == [j \in 1..Len(times) |-> Num(times[j])]

MakeSeries(times, column, field, tsfield, fmt) ==
    [j \in 1..Len(times) |->
        [g \in {field, tsfield} |-> IF g = field THEN column[j] ELSE DateStr(times[j], fmt)]]

SeriesA(fmt) ==
    UNION {{MakeSeries(times, column, "a", "year", fmt) :
               column \in ValueColumnsA(Len(times))} : times \in TimeLines}

SeriesB(fmt) ==
    {MakeSeries(times, ValueColumnB(times), "b", "year", fmt) : times \in TimeLines}

\* A nominal second series with the timestamps of the series a.
NominalB(a, fmt) ==
    [j \in 1..Len(a) |->
        [g \in {"b", "year"} |-> IF g = "b" THEN Str(<<"x">>) ELSE a[j]["year"]]]

MakeConfig(field, tsfield, fmt) ==
    [fields |-> <<[name |-> field, quantum |-> Undefined]>>,
     timestamp |-> [name |-> tsfield, format |-> fmt, quantum |-> "none"]]

\* The members the constructor sets when the config has no optional section.
NoOptions ==
    [_transform_type |-> "interp", _interp_type |-> "linear", _reduction_type |-> "skip",
     _reduction_size |-> 1, _reduction_target_field |-> NoField,
     _from |-> Undefined, _to |-> Undefined,
     _correlation_activated |-> FALSE, _count_negative |-> FALSE, _max_coef |-> FALSE]

NoCall == [name |-> "new", type |-> 0, skipsize |-> 0, target_field |-> NoField]

\* The constructor wraps its argument into a one-series set when the first
\* series has no first document, so a constructed set starts with a non-empty
\* series.
InitialSets(fmt) ==
    {<<a>> : a \in {x \in SeriesA(fmt) : x # <<>>}}
    \cup {<<a, b>> : a \in {x \in SeriesA(fmt) : x # <<>>}, b \in SeriesB(fmt)}
    \cup {<<a, NominalB(a, fmt)>> : a \in {x \in SeriesA(fmt) : x # <<>>}}

InitialConfig(ts, fmt) ==
    IF Len(ts) = 1 THEN <<MakeConfig("a", "year", fmt)>>
    ELSE <<MakeConfig("a", "year", fmt), MakeConfig("b", "year", fmt)>>

Init ==
    /\ \E fmt \in Formats :
        \E ts \in InitialSets(fmt) :
            /\ timeseries = ts
            /\ config = InitialConfig(ts, fmt)
    /\ op = NoCall
    /\ callbacks = <<>>
    /\ thrown = FALSE
    /\ homog = "none"
    /\ rnd = <<>>
    /\ old_timeseries = timeseries
    /\ old_config = config
    /\ smoother = NoSmoother
    /\ smoothed = NoSmoothed
    /\ options = NoOptions
    /\ pc = "idle"
    /\ trace = <<>>

(***************************************************************************)
(* Actions: one public call on the constructed processor, or intersect()   *)
(* followed by isHomogeneous().                                            *)
(***************************************************************************)
Called(name, type, skipsize, target_field) ==
    [name |-> name, type |-> type, skipsize |-> skipsize, target_field |-> target_field]

Apply(call, out) ==
    /\ op' = call
    /\ timeseries' = out.ts
    /\ config' = out.cfg
    /\ callbacks' = out.callbacks
    /\ thrown' = out.thrown
    /\ homog' = out.homog
    /\ old_timeseries' = timeseries
    /\ old_config' = config
    /\ UNCHANGED <<smoother, smoothed, options, pc, trace>>

TargetFields == {NoField, "a"}

\* tsp.isHomogeneous()
IsHomogeneous ==
    /\ op.name \in {"new", "intersect"}
    /\ \E draw \in Draws(timeseries) :
        LET h == isHomogeneous(timeseries, config, draw)
        IN  /\ rnd' = draw
            /\ Apply(Called("isHomogeneous", 0, 0, NoField),
                     Outcome(timeseries, config, <<>>, h = "throw", h))

\* tsp.undersample(type, skipsize, target_field, callback)
Undersample ==
    /\ op.name = "new"
    /\ \E type \in 0..4, skipsize \in 0..MaxSkip, target_field \in TargetFields :
        \E h \in HomogeneousOutcomes(timeseries, config) :
            /\ type \in {ReduceEnum.max, ReduceEnum.min} \/ target_field = NoField
            /\ rnd' = <<>>
            /\ Apply(Called("undersample", type, skipsize, target_field),
                     undersample(timeseries, config, type, skipsize, target_field,
                                 DrawGiving(timeseries, config, h)))

\* tsp.merge(callback)
Merge ==
    /\ op.name = "new"
    /\ \E h \in HomogeneousOutcomes(timeseries, config) :
        /\ rnd' = <<>>
        /\ Apply(Called("merge", 0, 0, NoField),
                 merge(timeseries, config, DrawGiving(timeseries, config, h)))

\* tsp.intersect(callback)
Intersect ==
    /\ op.name = "new"
    /\ rnd' = <<>>
    /\ Apply(Called("intersect", 0, 0, NoField), intersect(timeseries, config))

Next == IsHomogeneous \/ Undersample \/ Merge \/ Intersect

Spec == Init /\ [][Next]_vars

(***************************************************************************)
(* The interpolant on its own: tsinterp is independent of tsproc.  A       *)
(* series is learned, then smooth() is called with any date.  The code     *)
(* does not look at the order of the samples, so the timestamps of the     *)
(* learned series come in any order, duplicates included.                  *)
(***************************************************************************)
AnyTimeLines == UNION {[1..n -> 1..MaxTime] : n \in 0..MaxLen}

\* The documents of a series to learn: a is the rank of the sample, b its
\* instant; the nominal series has a text in a.
InterpColumns == {"a", "ab", "nominal"}

InterpSeries(times, columns) ==
    [j \in 1..Len(times) |->
        [g \in (IF columns = "ab" THEN {"a", "b", "year"} ELSE {"a", "year"}) |->
            CASE g = "year" -> DateStr(times[j], "ISO")
              [] g = "b" -> Num(times[j])
              [] OTHER -> IF columns = "nominal" THEN Str(<<"x">>) ELSE Num(10 + j)]]

InterpDescription(columns, type) ==
    [fields |-> IF columns = "ab" THEN <<[name |-> "a"], [name |-> "b"]>>
                ELSE <<[name |-> "a"]>>,
     type |-> type,
     timestamp_field |-> "year"]

\* description.type: the four methods and a number out of range.
DescriptionTypes == 0..Len(INTERP_METHODS)

\* The dates passed to smooth(): unset, empty, not a date, and every instant
\* from before the earliest sample to after the latest.
SmoothDates ==
    {Undefined, Str(<<>>), Str(<<"x">>)} \cup {DateStr(t, "ISO") : t \in 0..(MaxTime + 1)}

InitInterp ==
    /\ timeseries = <<>>
    /\ config = <<>>
    /\ op = NoCall
    /\ callbacks = <<>>
    /\ thrown = FALSE
    /\ homog = "none"
    /\ rnd = <<>>
    /\ old_timeseries = <<>>
    /\ old_config = <<>>
    /\ smoother = NoSmoother
    /\ smoothed = NoSmoothed
    /\ options = NoOptions
    /\ pc = "idle"
    /\ trace = <<>>

\* smoother = new tsinterp(timeseries, description, callback)
NewTsinterp ==
    /\ ~smoother.built
    /\ \E times \in AnyTimeLines, columns \in InterpColumns, type \in DescriptionTypes :
        smoother' = tsinterp(InterpSeries(times, columns), InterpDescription(columns, type))
    /\ UNCHANGED <<timeseries, config, op, callbacks, thrown, homog, rnd,
                   old_timeseries, old_config, smoothed, options, pc, trace>>

\* smoother.smooth(date, callback)
Smooth ==
    /\ smoother.built
    /\ \E date \in SmoothDates : smoothed' = smooth(smoother, date)
    /\ UNCHANGED <<timeseries, config, op, callbacks, thrown, homog, rnd,
                   old_timeseries, old_config, smoother, options, pc, trace>>

NextInterp == NewTsinterp \/ Smooth

SpecInterp == InitInterp /\ [][NextInterp]_vars

(***************************************************************************)
(* process(): the pipeline.  Every step is a synchronous call, so each     *)
(* action below is one step from its call to its return; pc is the place   *)
(* process() has reached and trace lists the steps it has called, each     *)
(* with the number of series the set held at the call.  A TypeError that   *)
(* escapes a step ends process() (pc = "raised").                          *)
(***************************************************************************)
\* The series of the set: numeric fields a and b, or a nominal field a with
\* a second series on the same dates.
ProcessColumn(times, nominal) ==
    [j \in 1..Len(times) |-> IF nominal THEN Str(<<"x">>) ELSE Num(times[j])]

ProcessSets(fmt) ==
    LET a(times, nominal) == MakeSeries(times, ProcessColumn(times, nominal), "a", "year", fmt)
        b(times) == MakeSeries(times, ValueColumnB(times), "b", "year", fmt)
    IN  {<<a(times, FALSE)>> : times \in TimeLines \ {<<>>}}
        \cup {<<a(times, FALSE), b(other)>> : times \in TimeLines \ {<<>>}, other \in TimeLines}
        \cup {<<a(times, TRUE), b(times)>> : times \in TimeLines \ {<<>>}}

\* A set whose first document carries a timestamp that does not parse.
WithInvalidFirstDate(ts) == [ts EXCEPT ![1][1]["year"] = Str(<<"x">>)]

ProcessFormats == {ISO_FORMAT, "YYYY"}

\* The members the constructor derives from the config: transform,
\* reduction and date borders.
Transforms ==
    {[type |-> "interp", interp_type |-> "cubic"],
     [type |-> "inters", interp_type |-> "null"], [type |-> "none", interp_type |-> "null"]}

Reductions ==
    {[type |-> "skip", size |-> 1, target_field |-> NoField],
     [type |-> "sum", size |-> MaxSkip, target_field |-> NoField]}

\* No borders, two borders (on schemas that declare quanta), a border that
\* is not a date.
Borders ==
    {[from |-> Undefined, to |-> Undefined, quanta |-> FALSE],
     [from |-> DateStr(2, ISO_FORMAT), to |-> DateStr(MaxTime - 1, ISO_FORMAT), quanta |-> TRUE],
     [from |-> Str(<<"x">>), to |-> DateStr(MaxTime - 1, ISO_FORMAT), quanta |-> FALSE]}

Options(transform, reduction, borders) ==
    [_transform_type |-> transform.type, _interp_type |-> transform.interp_type,
     _reduction_type |-> reduction.type, _reduction_size |-> reduction.size,
     _reduction_target_field |-> reduction.target_field,
     _from |-> borders.from, _to |-> borders.to,
     _correlation_activated |-> FALSE, _count_negative |-> FALSE, _max_coef |-> FALSE]

\* The schemas of a set, with or without quanta.
ProcessConfig(ts, fmt, quanta) ==
    [i \in 1..Len(ts) |->
        [fields |-> <<[name |-> IF i = 1 THEN "a" ELSE "b", quantum |-> IF quanta THEN Num(2) ELSE Undefined]>>,
         timestamp |-> [name |-> "year", format |-> fmt,
                        quantum |-> IF quanta THEN QuantTSEnum.year ELSE QuantTSEnum.none]]]

InitProcess ==
    /\ \E fmt \in ProcessFormats, transform \in Transforms, reduction \in Reductions,
          borders \in Borders :
        \E ts \in ProcessSets(fmt)
                   \cup {WithInvalidFirstDate(s) : s \in {x \in ProcessSets(fmt) : Len(x) = 1}} :
            /\ timeseries = ts
            /\ config = ProcessConfig(ts, fmt, borders.quanta)
            /\ options = Options(transform, reduction, borders)
    /\ op = Called("process", 0, 0, NoField)
    /\ callbacks = <<>>
    /\ thrown = FALSE
    /\ homog = "none"
    /\ rnd = <<>>
    /\ old_timeseries = <<>>
    /\ old_config = <<>>
    /\ smoother = NoSmoother
    /\ smoothed = NoSmoothed
    /\ pc = "isValid"
    /\ trace = <<>>

\* err_callback forwards the errors only.
RECURSIVE Errors(_)
Errors(cbs) ==
    IF cbs = <<>> THEN <<>>
    ELSE (IF Head(cbs) = "null" THEN <<>> ELSE <<Head(cbs)>>) \o Errors(Tail(cbs))

\* One step of process(), from its call to its return.
Step(name, out, next) ==
    /\ trace' = Append(trace, [step |-> name, nb_ts |-> getNbTS(timeseries)])
    /\ timeseries' = out.ts
    /\ config' = out.cfg
    /\ callbacks' = callbacks \o Errors(out.callbacks)
    /\ thrown' = out.thrown
    /\ pc' = IF out.thrown THEN "raised" ELSE next
    /\ UNCHANGED <<op, rnd, old_timeseries, old_config, smoother, smoothed, options>>

\* if (this.isValid()) ... else callback(new Error('Dates are not valid'))
ProcessIsValid ==
    /\ pc = "isValid"
    /\ LET valid == isValid(timeseries, config)
       IN  /\ pc' = CASE valid = "throw" -> "raised" [] valid = "false" -> "done" [] OTHER -> "cut"
           /\ thrown' = (valid = "throw")
           /\ callbacks' = IF valid = "false" THEN <<"Dates are not valid">> ELSE callbacks
    /\ UNCHANGED <<timeseries, config, op, homog, rnd, old_timeseries, old_config,
                   smoother, smoothed, options, trace>>

\* this.cut([this._from, this._to], err_callback)
ProcessCut ==
    /\ pc = "cut"
    /\ Step("cut", cut(timeseries, config, options._from, options._to), "toISO")
    /\ UNCHANGED homog

\* this.toISO(err_callback)
ProcessToISO ==
    /\ pc = "toISO"
    /\ Step("toISO", toISO(timeseries, config), "isHomogeneous")
    /\ UNCHANGED homog

\* Faulty variant of TransformNeeded: the test is missing.
TransformAlways(is_homog) == TRUE

\* if (!is_homog)
TransformNeeded(is_homog) == is_homog = "false"

\* var is_homog = this.isHomogeneous()
ProcessIsHomogeneous ==
    /\ pc = "isHomogeneous"
    /\ \E h \in HomogeneousOutcomes(timeseries, config) :
        /\ homog' = h
        /\ thrown' = (h = "throw")
        /\ pc' = IF h = "throw" THEN "raised"
                 ELSE IF TransformNeeded(h) THEN "transform" ELSE "fuse"
    /\ UNCHANGED <<timeseries, config, op, callbacks, rnd, old_timeseries, old_config,
                   smoother, smoothed, options, trace>>

\* this.interpolate(InterpEnum[this._interp_type], err_callback)
ProcessInterpolate ==
    /\ pc = "transform"
    /\ options._transform_type = "interp"
    /\ Step("interpolate",
            interpolate(timeseries, config, InterpEnum[options._interp_type]), "fuse")
    /\ UNCHANGED homog

\* this.intersect(err_callback)
ProcessIntersect ==
    /\ pc = "transform"
    /\ options._transform_type = "inters"
    /\ Step("intersect", intersect(timeseries, config), "fuse")
    /\ UNCHANGED homog

\* A transform type that is neither 'interp' nor 'inters': no transformation.
ProcessNoTransform ==
    /\ pc = "transform"
    /\ options._transform_type \notin {"interp", "inters"}
    /\ pc' = "fuse"
    /\ UNCHANGED <<timeseries, config, op, callbacks, thrown, homog, rnd, old_timeseries,
                   old_config, smoother, smoothed, options, trace>>

\* if (this.getNbTS() === 1)
SingleSeries(nb_ts) == nb_ts = 1

\* this.renameField(0, this.getTimestampField(0), TIMESTAMP_FIELD, err_callback)
ProcessRenameField ==
    /\ pc = "fuse"
    /\ SingleSeries(getNbTS(timeseries))
    /\ Step("renameField",
            renameField(timeseries, config, 1, getTimestampField(config, 1), TIMESTAMP_FIELD),
            "undersample")
    /\ UNCHANGED homog

\* this.merge(err_callback)
ProcessMerge ==
    /\ pc = "fuse"
    /\ ~SingleSeries(getNbTS(timeseries))
    /\ \E h \in HomogeneousOutcomes(timeseries, config) :
        Step("merge", merge(timeseries, config, DrawGiving(timeseries, config, h)), "undersample")
    /\ UNCHANGED homog

\* this.undersample(ReduceEnum[this._reduction_type], this._reduction_size,
\*                  this._reduction_target_field, err_callback)
ProcessUndersample ==
    /\ pc = "undersample"
    /\ \E h \in HomogeneousOutcomes(timeseries, config) :
        Step("undersample",
             undersample(timeseries, config, ReduceEnum[options._reduction_type],
                         options._reduction_size, options._reduction_target_field,
                         DrawGiving(timeseries, config, h)),
             "quantize")
    /\ UNCHANGED homog

\* this.quantize(err_callback)
ProcessQuantize ==
    /\ pc = "quantize"
    /\ Step("quantize", quantize(timeseries, config), "callback")
    /\ UNCHANGED homog

\* callback(null, this.getTS())
ProcessCallback ==
    /\ pc = "callback"
    /\ callbacks' = Append(callbacks, "null")
    /\ pc' = "done"
    /\ UNCHANGED <<timeseries, config, op, thrown, homog, rnd, old_timeseries, old_config,
                   smoother, smoothed, options, trace>>

NextProcess ==
    \/ ProcessIsValid \/ ProcessCut \/ ProcessToISO \/ ProcessIsHomogeneous
    \/ ProcessInterpolate \/ ProcessIntersect \/ ProcessNoTransform
    \/ ProcessRenameField \/ ProcessMerge \/ ProcessUndersample \/ ProcessQuantize
    \/ ProcessCallback

SpecProcess == InitProcess /\ [][NextProcess]_vars

(***************************************************************************)
(* Vocabulary of the properties.                                           *)
(***************************************************************************)
\* All series have the same length and the same timestamp at every position.
Aligned(ts, cfg) ==
    /\ \A i \in 1..Len(ts) : Len(ts[i]) = Len(ts[1])
    /\ \A i \in 1..Len(ts) : \A j \in 0..(Len(ts[1]) - 1) :
          getTimestamp(ts, cfg, i, j) = getTimestamp(ts, cfg, 1, j)

\* Some declared value field holds a non-numeric string in some document.
HasNominalField(ts, cfg) ==
    \E i \in 1..Len(ts) : \E j \in 1..Len(ts[i]) : \E x \in 1..Len(cfg[i].fields) :
        LET v == Get(ts[i][j], cfg[i].fields[x].name)
        IN  v.k = "str" /\ ParseFloatIsNaN(v)

\* Every declared value field holds a number in every document.
AllNumeric(ts, cfg) ==
    \A i \in 1..Len(ts) : \A j \in 1..Len(ts[i]) : \A x \in 1..Len(cfg[i].fields) :
        Get(ts[i][j], cfg[i].fields[x].name).k = "num"

\* isHomogeneous() can return false on this set.
CanBeInhomogeneous(ts, cfg) ==
    \E draw \in Draws(ts) : isHomogeneous(ts, cfg, draw) = "false"

NoErrorReported == \A x \in 1..Len(callbacks) : callbacks[x] = "null"

Unchanged == timeseries = old_timeseries /\ config = old_config

CeilDiv(a, b) == (a + b - 1) \div b

(***************************************************************************)
(* C1: isHomogeneous() returns true, whatever the three draws, whenever    *)
(* all series have the same length and the same timestamp at every         *)
(* position (in particular for a set of one series).                       *)
(* Fails on a set of several empty series, which intersect() leaves when   *)
(* the series share no date: the call raises a TypeError.                  *)
(***************************************************************************)
C1_HomogeneousWhenAligned ==
    (op.name = "isHomogeneous" /\ Aligned(old_timeseries, old_config))
        => homog = "true"

(***************************************************************************)
(* C2: undersample() with a window size that is unset, 0 or 1 leaves every *)
(* series unchanged and reports no error, for every policy, even when a    *)
(* field is nominal or the set is not homogeneous.                         *)
(***************************************************************************)
C2_SmallWindowIsNoOp ==
    (op.name = "undersample" /\ op.skipsize <= 1)
        => Unchanged /\ callbacks = <<"null">> /\ ~thrown

C2_Witness ==
    /\ op.name = "undersample" /\ op.skipsize = 1 /\ op.type = ReduceEnum.avg
    /\ Len(old_timeseries) = 2
    /\ Len(old_timeseries[1]) # Len(old_timeseries[2])
    /\ isNominal(old_timeseries, old_config) = "true"
    /\ timeseries = old_timeseries

(***************************************************************************)
(* C3: for a homogeneous set and a window size n > 1, the skip reduction   *)
(* replaces each series of length L by ceil(L/n) records, the r-th being   *)
(* the original record at index r*n, in the original order.                *)
(***************************************************************************)
C3_SkipKeepsEveryNth ==
    (/\ op.name = "undersample" /\ op.type = ReduceEnum.skip /\ op.skipsize > 1
     /\ (homog = "true" \/ Aligned(old_timeseries, old_config)))
        => /\ Len(timeseries) = Len(old_timeseries)
           /\ \A i \in 1..Len(timeseries) :
                /\ Len(timeseries[i]) = CeilDiv(Len(old_timeseries[i]), op.skipsize)
                /\ \A r \in 0..(Len(timeseries[i]) - 1) :
                      timeseries[i][r + 1] = old_timeseries[i][r * op.skipsize + 1]

C3_Witness ==
    /\ op.name = "undersample" /\ op.type = ReduceEnum.skip /\ op.skipsize = 2
    /\ homog = "true"
    /\ Len(old_timeseries) = 2 /\ Len(old_timeseries[1]) = 3
    /\ Len(timeseries[1]) = 2 /\ Len(timeseries[2]) = 2
    /\ timeseries[1][2] = old_timeseries[1][3]

(***************************************************************************)
(* C4: for a homogeneous numeric set and a window size n > 1, each record  *)
(* of the avg reduction is the record of the sum reduction for the same    *)
(* window with every value field divided by the number of records folded   *)
(* into the window: n for a full window, L mod n for a truncated trailing  *)
(* window; its timestamp is that of the window's first record.             *)
(***************************************************************************)
WindowCount(len, n, r) == IF r * n <= len THEN n ELSE len % n

C4_AvgIsSumOverCount ==
    (/\ op.name = "undersample" /\ op.type = ReduceEnum.avg /\ op.skipsize > 1
     /\ homog = "true" /\ AllNumeric(old_timeseries, old_config))
        => \A i \in 1..Len(old_timeseries) :
             LET n == op.skipsize
                 len == Len(old_timeseries[i])
                 sums == SumFrom(old_timeseries, old_config, i, 0, n)
                 fields == {old_config[i].fields[x].name : x \in 1..Len(old_config[i].fields)}
                 tsfield == getTimestampField(old_config, i)
             IN  /\ Len(timeseries[i]) = Len(sums)
                 /\ \A r \in 1..Len(sums) :
                      /\ DOMAIN timeseries[i][r] = DOMAIN sums[r]
                      /\ \A f \in fields :
                            timeseries[i][r][f] = JsDiv(sums[r][f], WindowCount(len, n, r))
                      /\ timeseries[i][r][tsfield] = old_timeseries[i][(r - 1) * n + 1][tsfield]

C4_Witness ==
    /\ op.name = "undersample" /\ op.type = ReduceEnum.avg /\ op.skipsize = 2
    /\ homog = "true" /\ AllNumeric(old_timeseries, old_config)
    /\ Len(old_timeseries[1]) = 3 /\ Len(timeseries[1]) = 2
    /\ timeseries[1][1]["a"] = Q(3, 2)
    /\ timeseries[1][2]["a"] = old_timeseries[1][3]["a"]

(***************************************************************************)
(* C5: undersample() with policy max or min, a window size > 1 and no      *)
(* target field reports a MissingTargetField error through its callback    *)
(* instead of reporting success.                                           *)
(* The code has no such error: reduceMax/reduceMin return null and         *)
(* undersample() reports success.                                          *)
(***************************************************************************)
MaxMinWithoutTarget ==
    /\ op.name = "undersample" /\ op.type \in {ReduceEnum.max, ReduceEnum.min}
    /\ op.skipsize > 1 /\ op.target_field = NoField

C5_MissingTargetFieldFails ==
    MaxMinWithoutTarget => callbacks = <<"MissingTargetField">>

\* C5 as amended: with policy max or min, a window size > 1 and no target
\* field, undersample() on a set that isNominal() accepts leaves every series
\* unchanged and invokes its callback once, with no error.
C5_MissingTargetFieldIsSilent ==
    (MaxMinWithoutTarget /\ isNominal(old_timeseries, old_config) = "false")
        => Unchanged /\ callbacks = <<"null">> /\ ~thrown

C5_Witness ==
    /\ MaxMinWithoutTarget /\ op.type = ReduceEnum.max
    /\ isNominal(old_timeseries, old_config) = "false"
    /\ homog = "true" /\ Len(old_timeseries[1]) = 3
    /\ timeseries = old_timeseries /\ callbacks = <<"null">>

(***************************************************************************)
(* C6: undersample() with a window size > 1 on a set in which some         *)
(* declared value field is nominal fails with an error for every policy    *)
(* other than skip and leaves every series unchanged; with policy skip it  *)
(* reports no error and performs the skip reduction.                       *)
(* Fails when the first value of the nominal field is the empty string:    *)
(* isFieldNominal() answers undefined and the reduction is applied.        *)
(***************************************************************************)
C6_NominalOnlySkips ==
    (op.name = "undersample" /\ op.skipsize > 1
     /\ HasNominalField(old_timeseries, old_config))
        => IF op.type # ReduceEnum.skip
           THEN callbacks = <<NominalError>> /\ Unchanged
           ELSE /\ callbacks = <<"null">>
                /\ homog = "true" =>
                     \A i \in 1..Len(old_timeseries) :
                        timeseries[i] = SkipFrom(old_timeseries, i, 0, op.skipsize)

(***************************************************************************)
(* C7: when the set holds more than one series and isHomogeneous() is      *)
(* false, undersample() (any policy, any window size) and merge() leave    *)
(* the number of series, every series and the schema unchanged, and report *)
(* no error.                                                               *)
(* Fails for undersample() with a window size > 1 and a policy other than  *)
(* skip on a set with a nominal field: the nominal check comes first and   *)
(* reports its error.                                                      *)
(***************************************************************************)
GatedCallOnInhomogeneousSet ==
    /\ op.name \in {"undersample", "merge"}
    /\ Len(old_timeseries) > 1
    /\ \/ homog = "false"
       \/ homog = "none" /\ CanBeInhomogeneous(old_timeseries, old_config)

StrictlyIncreasing(dates) ==
    \A i \in 1..(Len(dates) - 1) : dates[i].valid /\ dates[i + 1].valid /\ dates[i].t < dates[i + 1].t

\* smooth() was called on a learned interpolant with a date that parses.
SmoothedLearned ==
    /\ smoother._learned = "true"
    /\ smoothed.called
    /\ ParseMoment(smoothed.date, TRUE, ISO_FORMAT).valid

SmoothedInstant == ParseMoment(smoothed.date, TRUE, ISO_FORMAT).t

DeclaredNames(sm) == {sm._fields[j].name : j \in 1..Len(sm._fields)}

\* The callback got no error and a document made of the requested date and
\* of the given value for every declared field.
SmoothedDocIs(value) ==
    /\ smoothed.error = "null"
    /\ ~smoothed.thrown
    /\ DOMAIN smoothed.doc = DeclaredNames(smoother) \cup {smoother._timestamp_field}
    /\ smoothed.doc[smoother._timestamp_field] = smoothed.date
    /\ \A f \in DeclaredNames(smoother) : smoothed.doc[f] = value[f]

(***************************************************************************)
(* C8.  On a learned interpolant whose sample timestamps are strictly      *)
(* increasing, smooth(t) with t the timestamp of the sample at index p     *)
(* evaluates the curve at the integer position p and hands back a document *)
(* with timestamp t and the field values of that sample.                   *)
(***************************************************************************)
C8_ExactAtSample ==
    (SmoothedLearned /\ StrictlyIncreasing(smoother._dates_array)) =>
        \A p \in 0..(smoother._nb_ts - 1) :
            smoothed.date = smoother._timeseries[p + 1][smoother._timestamp_field] =>
                /\ smoothed.position = Num(p)
                /\ SmoothedDocIs(smoother._timeseries[p + 1])

\* An inner sample of a three-sample series with gaps, by a method other
\* than the default one.
C8_Witness ==
    /\ SmoothedLearned
    /\ StrictlyIncreasing(smoother._dates_array)
    /\ smoother._nb_ts = 3
    /\ smoother._interp_type = "cubic"
    /\ Len(smoother._fields) = 2
    /\ smoother._dates_array[3].t - smoother._dates_array[2].t > 1
    /\ smoothed.date = smoother._timeseries[2][smoother._timestamp_field]
    /\ smoothed.position = Num(1)
    /\ smoothed.doc["a"] = Num(12)

(***************************************************************************)
(* C9.  As stated: on a learned interpolant of `length` samples, smooth(t) *)
(* with t strictly before the first sample timestamp evaluates at position *)
(* -1 and with t strictly after the last one at position `length`; in both *)
(* cases the document has timestamp t and 0 in every declared field.       *)
(***************************************************************************)
ZeroValues == [f \in DeclaredNames(smoother) |-> Num(0)]

C9_OutsideRangePositions ==
    SmoothedLearned =>
        /\ SmoothedInstant < smoother._dates_array[1].t =>
              smoothed.position = Num(0 - 1) /\ SmoothedDocIs(ZeroValues)
        /\ SmoothedInstant > smoother._dates_array[smoother._nb_ts].t =>
              smoothed.position = Num(smoother._nb_ts) /\ SmoothedDocIs(ZeroValues)

(***************************************************************************)
(* C9, amended.  smooth(t) with t strictly before the first sample         *)
(* timestamp evaluates at position -1; with t strictly after the last      *)
(* sample timestamp and not before the first one it evaluates at position  *)
(* `length`; in both cases the document has timestamp t and 0 in every     *)
(* declared field, whatever the method.  (The test against the first       *)
(* sample comes first, and the samples need not be in order.)              *)
(***************************************************************************)
C9_OutsideRangeIsZero ==
    SmoothedLearned =>
        /\ SmoothedInstant < smoother._dates_array[1].t =>
              smoothed.position = Num(0 - 1) /\ SmoothedDocIs(ZeroValues)
        /\ (/\ SmoothedInstant > smoother._dates_array[smoother._nb_ts].t
            /\ SmoothedInstant >= smoother._dates_array[1].t) =>
              smoothed.position = Num(smoother._nb_ts) /\ SmoothedDocIs(ZeroValues)

\* A date after the last sample of a lanczos interpolant of two fields.
C9_Witness ==
    /\ SmoothedLearned
    /\ smoother._interp_type = "lanczos"
    /\ Len(smoother._fields) = 2
    /\ SmoothedInstant > smoother._dates_array[smoother._nb_ts].t
    /\ SmoothedInstant >= smoother._dates_array[1].t
    /\ smoothed.position = Num(smoother._nb_ts)
    /\ smoothed.doc["a"] = Num(0)
    /\ smoothed.doc["b"] = Num(0)

(***************************************************************************)
(* Vocabulary of the properties of process().                              *)
(***************************************************************************)
\* The place of a step in the list cut, toISO, (interpolate | intersect),
\* (renameField | merge), undersample, quantize.
StepRank(step) ==
    CASE step = "cut" -> 1
      [] step = "toISO" -> 2
      [] step \in {"interpolate", "intersect"} -> 3
      [] step \in {"renameField", "merge"} -> 4
      [] step = "undersample" -> 5
      [] step = "quantize" -> 6

Ran(steps) == \E x \in 1..Len(trace) : trace[x].step \in steps

TraceSteps == [x \in 1..Len(trace) |-> trace[x].step]

(***************************************************************************)
(* C10.  In process(), the steps run at most once each and in the order    *)
(* cut, toISO, (interpolate or intersect), (renameField or merge),         *)
(* undersample, quantize: a step is called only after cut, toISO and, for  *)
(* undersample and quantize, the steps before them have returned;          *)
(* interpolate or intersect runs only on more than one series and when     *)
(* the isHomogeneous() of process() returned false; renameField runs on    *)
(* one series and merge on more than one.                                  *)
(***************************************************************************)
C10_StepsInOrder ==
    /\ \A x, y \in 1..Len(trace) :
          x < y => StepRank(trace[x].step) < StepRank(trace[y].step)
    /\ \A x \in 1..Len(trace) :
          /\ StepRank(trace[x].step) > 1 => trace[1].step = "cut"
          /\ StepRank(trace[x].step) > 2 => trace[2].step = "toISO"
          /\ StepRank(trace[x].step) > 4 => Ran({"renameField", "merge"})
          /\ StepRank(trace[x].step) > 5 => Ran({"undersample"})
          /\ trace[x].step \in {"interpolate", "intersect"} =>
                trace[x].nb_ts > 1 /\ homog = "false"
          /\ trace[x].step = "renameField" => trace[x].nb_ts = 1
          /\ trace[x].step = "merge" => trace[x].nb_ts > 1
    /\ pc \in {"isValid", "cut"} => trace = <<>>

\* A whole run over two series that had to be interpolated, and one over a
\* single series.
C10_Witness ==
    /\ pc = "done"
    /\ callbacks = <<"null">>
    /\ TraceSteps = <<"cut", "toISO", "interpolate", "merge", "undersample", "quantize">>
    /\ getNbTS(timeseries) = 1
    /\ Len(timeseries[1]) > 1

\* Some step of process() has reported an error to the caller's callback.
StepErrorReported ==
    trace # <<>> /\ \E x \in 1..Len(callbacks) : callbacks[x] # "null"

(***************************************************************************)
(* C11.  In process(), a step that reports an error does not stop the      *)
(* pipeline: the error is forwarded to the caller's callback, process()    *)
(* does not end by raising, every later step is still called, and after    *)
(* quantize the callback is invoked once more, once, with no error.        *)
(* Fails when interpolate() meets a series of fewer than two documents: it *)
(* reports the error of the tsinterp constructor and then raises a         *)
(* TypeError from smooth() on the object the constructor left unset.       *)
(***************************************************************************)
C11_ErrorsDoNotStop ==
    StepErrorReported =>
        /\ pc # "raised"
        /\ pc = "done" =>
              /\ Ran({"cut"}) /\ Ran({"toISO"}) /\ Ran({"renameField", "merge"})
              /\ Ran({"undersample"}) /\ Ran({"quantize"})
              /\ callbacks[Len(callbacks)] = "null"
              /\ \A x \in 1..(Len(callbacks) - 1) : callbacks[x] # "null"

\* process() has made its final call callback(null, this.getTS()).
Delivered ==
    pc = "done" /\ callbacks # <<>> /\ callbacks[Len(callbacks)] = "null"

\* The value holds an instant spelled as an ISO string.
IsISOString(v) == v.k = "date" /\ IsISOFormat(v.s[1])

\* The series holds, in every record, an ISO timestamp in the field 'time'.
TimedSeries(series) ==
    \A j \in 1..Len(series) :
        /\ TIMESTAMP_FIELD \in DOMAIN series[j]
        /\ IsISOString(series[j][TIMESTAMP_FIELD])

(***************************************************************************)
(* C12.  With transform type 'interp' or 'inters', whenever process()      *)
(* delivers data to its callback the set holds one series, so getTS()      *)
(* passes a series and not an array of series, and every record of it      *)
(* holds an ISO string in the field 'time'.                                *)
(* Stated for the runs in which no step reported an error.  Fails for two  *)
(* series of equal length and different dates: the three draws of          *)
(* isHomogeneous() in process() can miss the difference, so no transform   *)
(* is applied, and the draws of isHomogeneous() in merge() can hit it, so  *)
(* merge() silently leaves the two series and an array is delivered.       *)
(***************************************************************************)
C12_DeliversOneTimedSeries ==
    (/\ Delivered
     /\ options._transform_type \in {"interp", "inters"}
     /\ \A x \in 1..Len(callbacks) : callbacks[x] = "null") =>
        /\ getNbTS(timeseries) = 1
        /\ TimedSeries(timeseries[1])

\* The last call was merge() on several series and it fused them.
Fused ==
    /\ op.name = "merge"
    /\ getNbTS(old_timeseries) > 1
    /\ homog = "true"
    /\ ~thrown

\* The names of the fields the schemas declare as timestamps.
TimestampNames(cfg) == {getTimestampField(cfg, i) : i \in 1..Len(cfg)}

\* Record j of the merged series holds the declared value fields of record j
\* of every input series, unchanged, and one timestamp field, named 'time'.
FusedRecordOf(doc, j) ==
    /\ \A i \in 1..getNbTS(old_timeseries) : \A x \in 1..Len(old_config[i].fields) :
          LET f == old_config[i].fields[x].name
          IN  f \in DOMAIN doc /\ doc[f] = Get(old_timeseries[i][j], f)
    /\ TIMESTAMP_FIELD \in DOMAIN doc
    /\ (DOMAIN doc) \cap TimestampNames(old_config) \subseteq {TIMESTAMP_FIELD}

\* The input records at position j all carry the same timestamp.
SameTimestampAt(j) ==
    \A i \in 1..getNbTS(old_timeseries) :
        getTimestamp(old_timeseries, old_config, i, j - 1)
            = getTimestamp(old_timeseries, old_config, 1, j - 1)

(***************************************************************************)
(* C13.  When merge() fuses N > 1 series of length L, the set becomes one  *)
(* series of L records; record j holds every declared value field of       *)
(* record j of every input series unchanged and a single timestamp field   *)
(* 'time'; the input records fused into record j all carry the same        *)
(* timestamp; the schema is one entry listing the value fields of all      *)
(* series in series order.                                                 *)
(* Fails on series of equal length whose dates differ at a position the    *)
(* three draws of isHomogeneous() do not compare.                          *)
(***************************************************************************)
C13_MergeFusesAlignedRecords ==
    Fused =>
        /\ getNbTS(timeseries) = 1
        /\ \A i \in 1..getNbTS(old_timeseries) :
              Len(timeseries[1]) = Len(old_timeseries[i])
        /\ \A j \in 1..Len(timeseries[1]) :
              FusedRecordOf(timeseries[1][j], j) /\ SameTimestampAt(j)
        /\ Len(config) = 1
        /\ config[1].fields = AllFields(old_config, 1)
        /\ config[1].timestamp.name = TIMESTAMP_FIELD

(***************************************************************************)
(* Direct calls of quantize(): one series of two value fields, a with a    *)
(* quantum and b without, or two series; whole, fractional and negative    *)
(* values; whole quanta and the quantum 1/3; ISO and non-ISO timestamp     *)
(* formats, with and without a quantum of the timestamps.                  *)
(***************************************************************************)
ValueShapes == {"whole", "half", "negative"}

ShapedValue(t, shape) ==
    CASE shape = "whole" -> Num(t)
      [] shape = "half" -> Q(2 * t + 1, 2)
      [] OTHER -> Q(0 - (2 * t + 1), 2)

\* The quanta a config gives to the field a: none, two whole sizes, and the
\* Number that the expression 1/3 evaluates to.
Quanta == {Undefined, Num(2), Num(3), RoundNumber(Q(1, 3))}

QuantizeSeries(times, shape, fmt) ==
    [j \in 1..Len(times) |->
        [g \in {"a", "b", "year"} |->
            CASE g = "a" -> ShapedValue(times[j], shape)
              [] g = "b" -> ShapedValue(times[j], shape)
              [] OTHER -> DateStr(times[j], fmt)]]

QuantizeConfig(fmt, quantum, ts_quantum) ==
    [fields |-> <<[name |-> "a", quantum |-> quantum], [name |-> "b", quantum |-> Undefined]>>,
     timestamp |-> [name |-> "year", format |-> fmt, quantum |-> ts_quantum]]

InitQuantize ==
    /\ \E times \in TimeLines \ {<<>>}, shape \in ValueShapes, fmt \in ProcessFormats,
          quantum \in Quanta, ts_quantum \in {QuantTSEnum.none, QuantTSEnum.year},
          nb_ts \in 1..2 :
        /\ timeseries = [i \in 1..nb_ts |-> QuantizeSeries(times, shape, fmt)]
        /\ config = [i \in 1..nb_ts |-> QuantizeConfig(fmt, quantum, ts_quantum)]
    /\ op = NoCall
    /\ callbacks = <<>>
    /\ thrown = FALSE
    /\ homog = "none"
    /\ rnd = <<>>
    /\ old_timeseries = <<>>
    /\ old_config = <<>>
    /\ smoother = NoSmoother
    /\ smoothed = NoSmoothed
    /\ options = NoOptions
    /\ pc = "idle"
    /\ trace = <<>>

\* tsp.quantize(callback)
Quantize ==
    /\ op.name = "new"
    /\ rnd' = <<>>
    /\ Apply(Called("quantize", 0, 0, NoField), quantize(timeseries, config))

NextQuantize == Quantize

SpecQuantize == InitQuantize /\ [][NextQuantize]_vars

\* r is the multiple of q with v - q < r <= v (r, v and q are numbers, q > 0).
IsFloorMultiple(r, v, q) ==
    /\ r.k = "num"
    /\ (r.n * q.d) % (r.d * q.n) = 0
    /\ (v.n * q.d - q.n * v.d) * r.d < r.n * v.d * q.d
    /\ r.n * v.d <= v.n * r.d

\* quantize() was called on one series whose schema says ISO.
QuantizedOne ==
    /\ op.name = "quantize"
    /\ getNbTS(old_timeseries) = 1
    /\ isISOAll(old_config)

(***************************************************************************)
(* C14.  quantize() on a single series with ISO timestamps replaces each   *)
(* numeric value v of a field with quantum q > 0 by the multiple of q in   *)
(* (v - q, v], leaves the fields without a quantum as they were, and a     *)
(* second quantize() changes nothing more; on several series or a non-ISO  *)
(* format quantize() changes nothing.                                      *)
(* Fails for a quantum that is not a whole number: the quotient and the    *)
(* product are rounded, so the result need not be a multiple of q and a    *)
(* second quantize() can step one more quantum down.                       *)
(***************************************************************************)
C14_QuantizeFloors ==
    op.name = "quantize" =>
        /\ ~thrown
        /\ IF QuantizedOne
           THEN /\ Len(timeseries) = 1 /\ Len(timeseries[1]) = Len(old_timeseries[1])
                /\ config = old_config
                /\ \A j \in 1..Len(timeseries[1]) : \A x \in 1..Len(config[1].fields) :
                      LET f == config[1].fields[x].name
                          q == getQuantum(config, 1, x)
                          v == old_timeseries[1][j][f]
                          r == timeseries[1][j][f]
                      IN  IF NumLess(Num(0), q) THEN IsFloorMultiple(r, v, q) ELSE r = v
                /\ quantize(timeseries, config).ts = timeseries
           ELSE Unchanged

(***************************************************************************)
(* Direct calls of cut(): one or two chronological series, the second      *)
(* possibly empty, and every pair of borders among unset and the instants. *)
(***************************************************************************)
CutSets(fmt) ==
    LET a(times) == MakeSeries(times, ValueColumnB(times), "a", "year", fmt)
        b(times) == MakeSeries(times, ValueColumnB(times), "b", "year", fmt)
    IN  {<<a(times)>> : times \in TimeLines \ {<<>>}}
        \cup {<<a(times), b(other)>> : times \in TimeLines \ {<<>>}, other \in TimeLines}

CutBorders == {Undefined} \cup {DateStr(t, ISO_FORMAT) : t \in 1..MaxTime}

InitCut ==
    /\ \E fmt \in ProcessFormats : \E ts \in CutSets(fmt) :
        /\ timeseries = ts
        /\ config = ProcessConfig(ts, fmt, FALSE)
    /\ op = NoCall
    /\ callbacks = <<>>
    /\ thrown = FALSE
    /\ homog = "none"
    /\ rnd = <<>>
    /\ old_timeseries = <<>>
    /\ old_config = <<>>
    /\ smoother = NoSmoother
    /\ smoothed = NoSmoothed
    /\ options = NoOptions
    /\ pc = "idle"
    /\ trace = <<>>

\* tsp.cut([from, to], callback)
Cut ==
    /\ op.name = "new"
    /\ \E from \in CutBorders, to \in CutBorders :
        /\ rnd' = <<>>
        /\ Apply([name |-> "cut", from |-> from, to |-> to], cut(timeseries, config, from, to))

NextCut == Cut

SpecCut == InitCut /\ [][NextCut]_vars

\* The instant of a document of the set before, resp. after, the call.
OldInstant(i, j) == getTimestamp(old_timeseries, old_config, i, j - 1).t
NewInstant(i, j) == getTimestamp(timeseries, config, i, j - 1).t

\* Series i is what the old series i keeps inside [lo, hi].
KeepsExactly(i, lo, hi) ==
    /\ \A j \in 1..Len(timeseries[i]) : lo <= NewInstant(i, j) /\ NewInstant(i, j) <= hi
    /\ \A j \in 1..Len(old_timeseries[i]) :
          (lo <= OldInstant(i, j) /\ OldInstant(i, j) <= hi) =>
              \E x \in 1..Len(timeseries[i]) : timeseries[i][x] = old_timeseries[i][j]

(***************************************************************************)
(* C15.  After cut([from, to]) with two valid borders every remaining      *)
(* record has from <= t <= to and every original record of [from, to] is   *)
(* still there; a series with no record in [from, to] becomes empty.       *)
(* Fails for a series with no record inside the borders: the scans of      *)
(* cutBellowMin and cutAboveMax find no document to slice at and leave the *)
(* records that lie outside.                                               *)
(***************************************************************************)
C15_CutKeepsTheRange ==
    (op.name = "cut" /\ op.from.k = "date" /\ op.to.k = "date" /\ op.from.n <= op.to.n) =>
        /\ ~thrown
        /\ NoErrorReported
        /\ Len(timeseries) = Len(old_timeseries)
        /\ \A i \in 1..Len(timeseries) : KeepsExactly(i, op.from.n, op.to.n)

(***************************************************************************)
(* C16.  Each border of cut() defaults on its own: with only `from` the    *)
(* records earlier than from are removed and nothing else, with only `to`  *)
(* the records later than to are removed and nothing else, with neither    *)
(* nothing is removed.                                                     *)
(* Fails with one border: cut() takes the given borders only when both are *)
(* set, otherwise both become the observed extremes and nothing is cut.    *)
(***************************************************************************)
C16_BordersDefaultAlone ==
    (op.name = "cut" /\ ~thrown) =>
        /\ (op.from.k = "date" /\ op.to.k = "undef") =>
              \A i \in 1..Len(timeseries) : KeepsExactly(i, op.from.n, MaxTime)
        /\ (op.from.k = "undef" /\ op.to.k = "date") =>
              \A i \in 1..Len(timeseries) : KeepsExactly(i, 1, op.to.n)
        /\ (op.from.k = "undef" /\ op.to.k = "undef") => Unchanged

(***************************************************************************)
(* The constructor.  A section of the config is a record with a flag that  *)
(* tells whether the config has it; "" stands for a key that is not set    *)
(* and Undefined for a date that is not set.  A member the constructor     *)
(* leaves unset (or sets to null) is NoField, resp. Undefined, resp. FALSE.*)
(***************************************************************************)
\* this._transform_type, this._interp_type; reading config.transform.interp_type
\* raises a TypeError when the config has no transform section.
ConstructTransform(transform) ==
    LET type == IF transform.present /\ transform.type # "" THEN transform.type ELSE "interp"
    IN  IF type = "interp"
        THEN IF ~transform.present
             THEN [raised |-> TRUE, type |-> type, interp_type |-> "undefined"]
             ELSE [raised |-> FALSE, type |-> type,
                   interp_type |-> IF transform.interp_type # ""
                                   THEN transform.interp_type ELSE "linear"]
        ELSE [raised |-> FALSE, type |-> type, interp_type |-> "null"]

\* new tsproc(timeseries, config, err_callback) with both arguments set: the
\* members, the set (an argument that is one series is wrapped), and whether
\* the constructor raised.
tsproc(timeseries_arg, config_arg) ==
    LET transform == ConstructTransform(config_arg.transform)
        reduction == config_arg.reduction
        borders == config_arg.date_borders
        correlation == config_arg.correlation
    IN  [raised |-> transform.raised,
         ts |-> IF timeseries_arg.is_set THEN timeseries_arg.data ELSE <<timeseries_arg.data>>,
         cfg |-> config_arg.timeseries,
         options |->
            [_transform_type |-> transform.type, _interp_type |-> transform.interp_type,
             _reduction_type |-> IF reduction.present /\ reduction.type # ""
                                 THEN reduction.type ELSE "skip",
             _reduction_size |-> IF reduction.present /\ reduction.size # 0
                                 THEN reduction.size ELSE 1,
             _reduction_target_field |-> IF reduction.present THEN reduction.target_field
                                         ELSE NoField,
             _from |-> IF borders.present /\ Truthy(borders.from) THEN borders.from
                       ELSE Undefined,
             _to |-> IF borders.present /\ Truthy(borders.to) THEN borders.to ELSE Undefined,
             _correlation_activated |-> correlation.present,
             _count_negative |-> correlation.present /\ correlation.count_negative,
             _max_coef |-> correlation.present /\ correlation.max_coef]]

\* The optional sections a config can hold.
TransformSections ==
    {[present |-> FALSE, type |-> "", interp_type |-> ""],
     [present |-> TRUE, type |-> "", interp_type |-> ""],
     [present |-> TRUE, type |-> "interp", interp_type |-> "cubic"],
     [present |-> TRUE, type |-> "inters", interp_type |-> ""]}

ReductionSections ==
    {[present |-> FALSE, type |-> "", size |-> 0, target_field |-> NoField],
     [present |-> TRUE, type |-> "", size |-> 0, target_field |-> NoField],
     [present |-> TRUE, type |-> "sum", size |-> MaxSkip, target_field |-> NoField],
     [present |-> TRUE, type |-> "max", size |-> MaxSkip, target_field |-> "a"]}

BorderSections ==
    {[present |-> FALSE, from |-> Undefined, to |-> Undefined]}
    \cup {[present |-> TRUE, from |-> from, to |-> to] :
             from \in {Undefined, DateStr(1, ISO_FORMAT)},
             to \in {Undefined, DateStr(MaxTime, ISO_FORMAT)}}

\* count_negative defaults to false and max_coef to true.
CorrelationSections ==
    {[present |-> FALSE, count_negative |-> FALSE, max_coef |-> FALSE]}
    \cup {[present |-> TRUE, count_negative |-> c, max_coef |-> x] : c, x \in BOOLEAN}

\* The timeseries argument: a set of two series, or one series.
TimeseriesArguments ==
    LET a == MakeSeries(<<1, 2>>, <<Num(1), Num(2)>>, "a", "year", ISO_FORMAT)
        b == MakeSeries(<<1, 2>>, <<Num(3), Num(4)>>, "b", "year", ISO_FORMAT)
    IN  {[is_set |-> TRUE, data |-> <<a, b>>], [is_set |-> FALSE, data |-> a]}

ConfigArguments(nb_ts) ==
    {[timeseries |-> [i \in 1..nb_ts |-> MakeConfig(IF i = 1 THEN "a" ELSE "b", "year", ISO_FORMAT)],
      transform |-> transform, reduction |-> reduction,
      date_borders |-> borders, correlation |-> correlation] :
         transform \in TransformSections, reduction \in ReductionSections,
         borders \in BorderSections, correlation \in CorrelationSections}

\* Before new tsproc(...): no object yet.
InitConstruct ==
    /\ timeseries = <<>>
    /\ config = <<>>
    /\ op = NoCall
    /\ callbacks = <<>>
    /\ thrown = FALSE
    /\ homog = "none"
    /\ rnd = <<>>
    /\ old_timeseries = <<>>
    /\ old_config = <<>>
    /\ smoother = NoSmoother
    /\ smoothed = NoSmoothed
    /\ options = NoOptions
    /\ pc = "idle"
    /\ trace = <<>>

\* tsp = new tsproc(timeseries, config, err_callback)
Construct ==
    /\ op.name = "new"
    /\ \E timeseries_arg \in TimeseriesArguments :
        \E config_arg \in ConfigArguments(IF timeseries_arg.is_set THEN 2 ELSE 1) :
            LET made == tsproc(timeseries_arg, config_arg)
            IN  /\ op' = [name |-> "tsproc", config |-> config_arg]
                /\ thrown' = made.raised
                /\ timeseries' = IF made.raised THEN <<>> ELSE made.ts
                /\ config' = IF made.raised THEN <<>> ELSE made.cfg
                /\ options' = IF made.raised THEN NoOptions ELSE made.options
    /\ UNCHANGED <<callbacks, homog, rnd, old_timeseries, old_config,
                   smoother, smoothed, pc, trace>>

NextConstruct == Construct

SpecConstruct == InitConstruct /\ [][NextConstruct]_vars

(***************************************************************************)
(* C17.  Constructing a processor with a config that declares the schemas  *)
(* and omits any of the optional sections does not raise, and the members  *)
(* of an omitted section take the defaults: transform 'interp' with        *)
(* 'linear', reduction 'skip' of size 1 without target field, both date    *)
(* borders unset.                                                          *)
(* Fails when the transform section is omitted: the type defaults to       *)
(* 'interp' and the constructor then reads config.transform.interp_type.   *)
(***************************************************************************)
C17_OmittedSectionsDefault ==
    op.name = "tsproc" =>
        /\ ~thrown
        /\ ~op.config.transform.present =>
              options._transform_type = "interp" /\ options._interp_type = "linear"
        /\ ~op.config.reduction.present =>
              /\ options._reduction_type = "skip"
              /\ options._reduction_size = 1
              /\ options._reduction_target_field = NoField
        /\ ~op.config.date_borders.present =>
              options._from = Undefined /\ options._to = Undefined

(***************************************************************************)
(* Direct calls of interpolate() and intersect(): a chronological first    *)
(* series and a second series that is chronological, in reverse order, or  *)
(* starts with a repeated date; the value of a record is its rank.         *)
(***************************************************************************)
Reversed(seq) == [j \in 1..Len(seq) |-> seq[Len(seq) + 1 - j]]

IrregularTimeLines ==
    {Reversed(times) : times \in {t \in TimeLines : Len(t) >= 2}}
    \cup {<<times[1]>> \o times : times \in {t \in TimeLines : Len(t) >= 1 /\ Len(t) < MaxLen}}

RankColumn(times) == [j \in 1..Len(times) |-> Num(j)]

AlignSets(fmt) ==
    {<<MakeSeries(times, RankColumn(times), "a", "year", fmt),
       MakeSeries(other, RankColumn(other), "b", "year", fmt)>> :
         times \in TimeLines \ {<<>>}, other \in TimeLines \cup IrregularTimeLines}

InitAlign ==
    /\ \E fmt \in ProcessFormats : \E ts \in AlignSets(fmt) :
        /\ timeseries = ts
        /\ config = ProcessConfig(ts, fmt, FALSE)
    /\ op = NoCall
    /\ callbacks = <<>>
    /\ thrown = FALSE
    /\ homog = "none"
    /\ rnd = <<>>
    /\ old_timeseries = <<>>
    /\ old_config = <<>>
    /\ smoother = NoSmoother
    /\ smoothed = NoSmoothed
    /\ options = NoOptions
    /\ pc = "idle"
    /\ trace = <<>>

\* tsp.interpolate(type, callback)
Interpolate ==
    /\ op.name = "new"
    /\ \E type \in {InterpEnum.linear, InterpEnum.cubic, InterpEnum.lanczos, InterpEnum.nearest} :
        /\ rnd' = <<>>
        /\ Apply(Called("interpolate", type, 0, NoField), interpolate(timeseries, config, type))

NextAlign == Interpolate \/ Intersect

SpecAlign == InitAlign /\ [][NextAlign]_vars

\* The timestamps (as written) of the series i before, resp. after, the call.
OldDates(i) == getTSDates(old_timeseries, old_config, i)
NewDates(i) == getTSDates(timeseries, config, i)

\* Every timestamp of the set before the call.
UnionOfDates == UNION {Range(OldDates(i)) : i \in 1..Len(old_timeseries)}

\* The instants of the series are in chronological order.
Chronological(dates) == \A j \in 1..(Len(dates) - 1) : dates[j].n <= dates[j + 1].n

\* Record j of series i keeps the values of an old record of the same timestamp.
KeepsOriginal(i, j) ==
    \E x \in 1..Len(old_timeseries[i]) :
        /\ OldDates(i)[x] = NewDates(i)[j]
        /\ \A y \in 1..Len(old_config[i].fields) :
              LET f == old_config[i].fields[y].name
              IN  Get(timeseries[i][j], f) = Get(old_timeseries[i][x], f)

\* Record j of series i holds 0 in every declared field.
AllZero(i, j) ==
    \A y \in 1..Len(old_config[i].fields) :
        Get(timeseries[i][j], old_config[i].fields[y].name) = Num(0)

\* The timestamp is before every, or after every, old timestamp of series i.
OutsideRange(i, date) ==
    \/ \A x \in 1..Len(old_timeseries[i]) : date.n < OldDates(i)[x].n
    \/ \A x \in 1..Len(old_timeseries[i]) : date.n > OldDates(i)[x].n

\* interpolate() was called on several numeric series with ISO timestamps
\* and at least two records each.
Interpolated ==
    /\ op.name = "interpolate"
    /\ getNbTS(old_timeseries) > 1
    /\ AllNumeric(old_timeseries, old_config)
    /\ isISOAll(old_config)
    /\ \A i \in 1..Len(old_timeseries) : Len(old_timeseries[i]) >= 2

\* What C18 says of the set interpolate() leaves.
InterpolatedOntoUnion ==
    /\ ~thrown /\ NoErrorReported
    /\ Len(timeseries) = Len(old_timeseries)
    /\ \A i \in 1..Len(timeseries) :
          /\ Range(NewDates(i)) = UnionOfDates
          /\ Len(timeseries[i]) = Cardinality(UnionOfDates)
          /\ Chronological(NewDates(i))
          /\ NewDates(i) = NewDates(1)
          /\ \A j \in 1..Len(timeseries[i]) :
                /\ NewDates(i)[j] \in Range(OldDates(i)) => KeepsOriginal(i, j)
                /\ OutsideRange(i, NewDates(i)[j]) => AllZero(i, j)

(***************************************************************************)
(* C18.  After interpolate() on N > 1 numeric series with ISO timestamps   *)
(* and at least two records each, every series holds one record per        *)
(* timestamp of the union, in chronological order (so the series have      *)
(* equal length and the same timestamp at every position); a record at a   *)
(* timestamp the series had keeps the original values, and a record at a   *)
(* timestamp outside the original range of the series holds 0 in every     *)
(* field.                                                                  *)
(* Fails for a series whose records are not in chronological order: its    *)
(* records at the dates it had come back as zeros.                         *)
(***************************************************************************)
C18_InterpolatesOntoUnion == Interpolated => InterpolatedOntoUnion

\* C18 as the code has it: the same, for series whose records are each in
\* chronological order; smooth() takes the first and the last record of a
\* series for its earliest and latest.
C18_ChronologicalOntoUnion ==
    (Interpolated /\ \A i \in 1..Len(old_timeseries) : Chronological(OldDates(i)))
        => InterpolatedOntoUnion

\* Two chronological series of different dates were interpolated: some
\* record kept its values and some record outside the range of its series
\* holds zeros.
C18_Witness ==
    /\ Interpolated
    /\ \A i \in 1..Len(old_timeseries) : Chronological(OldDates(i))
    /\ Range(OldDates(1)) # Range(OldDates(2))
    /\ \E i \in 1..Len(timeseries) : \E j, x \in 1..Len(timeseries[i]) :
          /\ NewDates(i)[j] \in Range(OldDates(i)) /\ KeepsOriginal(i, j) /\ ~AllZero(i, j)
          /\ OutsideRange(i, NewDates(i)[x]) /\ AllZero(i, x)

\* The timestamps of a series are pairwise different.
UniqueDates(dates) == \A j, x \in 1..Len(dates) : dates[j] = dates[x] => j = x

\* The timestamps that occur in every series of the set before the call.
CommonDates ==
    {d \in UnionOfDates : \A i \in 1..Len(old_timeseries) : d \in Range(OldDates(i))}

\* intersect() was called on several series with ISO timestamps, unique
\* within each series.
Intersected ==
    /\ op.name = "intersect"
    /\ getNbTS(old_timeseries) > 1
    /\ isISOAll(old_config)
    /\ \A i \in 1..Len(old_timeseries) : UniqueDates(OldDates(i))

(***************************************************************************)
(* C19.  After intersect() on N > 1 series with ISO timestamps, unique     *)
(* within each series, each series holds exactly those of its original     *)
(* records whose timestamp occurs in every series, unchanged, so that the  *)
(* series have equal length and the same timestamp at every position.      *)
(***************************************************************************)
C19_IntersectKeepsCommon ==
    Intersected =>
        /\ ~thrown /\ NoErrorReported
        /\ Len(timeseries) = Len(old_timeseries)
        /\ config = old_config
        /\ \A i \in 1..Len(timeseries) :
              /\ Range(timeseries[i])
                    = {old_timeseries[i][j] : j \in {x \in 1..Len(old_timeseries[i]) :
                                                        OldDates(i)[x] \in CommonDates}}
              /\ Len(timeseries[i]) = Cardinality(CommonDates)
              /\ NewDates(i) = NewDates(1)

\* Two series sharing some dates but not all were intersected: each lost a
\* record and kept one.
C19_Witness ==
    /\ Intersected
    /\ CommonDates # {}
    /\ \A i \in 1..Len(timeseries) :
          Len(timeseries[i]) < Len(old_timeseries[i]) /\ Len(timeseries[i]) > 0
(***************************************************************************)
(* checkSimilarity(): the correlated ranges of one series of two fields.   *)
(* The vectors hold whole numbers, so the sums of getCorrelationCoef are   *)
(* exact.  A coefficient is the string toFixed(4) returns: "NaN", or a     *)
(* sign and the ten-thousandths mag of a number written d.dddd.            *)
(***************************************************************************)
False == [k |-> "bool", n |-> 0, d |-> 1, s |-> <<>>]

CoefNaN == [nan |-> TRUE, neg |-> FALSE, mag |-> 0]

\* extractValues.call(this, [start_index, end_index]): one vector per field.
ExtractRange(ts, cfg, start_index, end_index) ==
    IF start_index >= end_index \/ start_index < 0 \/ end_index > getTSSize(ts, 1)
    THEN <<>>
    ELSE [x \in 1..Len(getFields(cfg, 1)) |->
            [j \in 1..(end_index - start_index + 1) |->
                ToNumber(Get(getDoc(ts, 1, start_index + j - 1), getFields(cfg, 1)[x]))]]

RECURSIVE SumOfProducts(_, _)
SumOfProducts(array1, array2) ==
    IF array1 = <<>> THEN 0
    ELSE Head(array1).n * Head(array2).n + SumOfProducts(Tail(array1), Tail(array2))

\* floor((X + R / B) * 10^digits), by long division.
RECURSIVE ScaledFloor(_, _, _, _)
ScaledFloor(X, R, B, digits) ==
    IF digits = 0 THEN X
    ELSE ScaledFloor(10 * X + (10 * R) \div B, (10 * R) % B, B, digits - 1)

\* The largest s in lo..hi with s * s <= F.
RECURSIVE Isqrt(_, _, _)
Isqrt(F, lo, hi) ==
    LET mid == (lo + hi + 1) \div 2
    IN  IF lo = hi THEN lo
        ELSE IF mid * mid <= F THEN Isqrt(F, mid, hi)
        ELSE Isqrt(F, lo, mid - 1)

\* The digits of Math.sqrt(A / B).toFixed(4) for 0 <= A <= B: the m with
\* m - 1/2 <= 10^4 * sqrt(A / B) < m + 1/2, that is the largest m with
\* (2m - 1)^2 <= 4 * 10^8 * A / B.
ToFixed(A, B) ==
    (Isqrt(ScaledFloor((4 * A) \div B, (4 * A) % B, B, 8), 0, 20000) + 1) \div 2

\* getCorrelationCoef(array1, array2): Pearson's coefficient, as toFixed(4)
\* writes it.  A vanishing variance gives 0 / 0.
getCorrelationCoef(array1, array2) ==
    LET n == Len(array1)
        ones == [i \in 1..n |-> Num(1)]
        sum_xy == SumOfProducts(array1, array2)
        sum_x == SumOfProducts(array1, ones)
        sum_y == SumOfProducts(array2, ones)
        sum_x2 == SumOfProducts(array1, array1)
        sum_y2 == SumOfProducts(array2, array2)
        covariance == n * sum_xy - sum_x * sum_y
        variances == (n * sum_x2 - sum_x * sum_x) * (n * sum_y2 - sum_y * sum_y)
    IN  IF \E i \in 1..n : array1[i].k # "num" \/ array2[i].k # "num" THEN CoefNaN
        ELSE IF variances = 0 THEN CoefNaN
        ELSE [nan |-> FALSE, neg |-> covariance < 0,
              mag |-> ToFixed(covariance * covariance, variances)]

CoefOfRange(ts, cfg, i, k) ==
    LET values == ExtractRange(ts, cfg, i, k)
    IN  getCorrelationCoef(values[1], values[2])

\* +coef: the Number a coefficient string converts to.
CoefNumber(coef) ==
    IF coef.nan THEN NaN ELSE Q(IF coef.neg THEN 0 - coef.mag ELSE coef.mag, 10000)

\* coef_abs > 0.6, where coef_abs is Math.abs(coef) or the string itself.
AboveThreshold(coef, count_negative) ==
    /\ ~coef.nan
    /\ count_negative \/ ~coef.neg
    /\ coef.mag * 10 > 6 * 10000

\* The first character of a coefficient string: "-" sorts before the digits
\* and the digits before "N".
CoefClass(coef) == IF coef.nan THEN 2 ELSE IF coef.neg THEN 0 ELSE 1

\* coef > max on two coefficient strings: the lexicographic order.
CoefGreater(coef, max) ==
    \/ CoefClass(coef) > CoefClass(max)
    \/ CoefClass(coef) = CoefClass(max) /\ ~coef.nan /\ coef.mag > max.mag

\* markCorrelation.call(this, [start_index, end_index], corr_value), with
\* correlation the value computed from corr_value.
markCorrelation(ts, cfg, start_index, end_index, correlation) ==
    IF getNbTS(ts) = 1 /\ Len(getFields(cfg, 1)) > 1
    THEN IF start_index >= end_index \/ start_index < 0 \/ end_index > getTSSize(ts, 1)
         THEN ts
         ELSE <<[j \in 1..Len(ts[1]) |->
                    IF j - 1 >= start_index /\ j - 1 <= end_index
                       /\ ~Truthy(Get(ts[1][j], "correlation"))
                    THEN Put(ts[1][j], "correlation", correlation)
                    ELSE ts[1][j]]>>
    ELSE ts

\* Faulty variant of MarkRest: the documents outside the ranges stay unmarked.
MarkRestNowhere(ts, cfg) == ts

\* markCorrelation.call(this): every document not yet marked gets false.
MarkRest(ts, cfg) ==
    IF getNbTS(ts) = 1 /\ Len(getFields(cfg, 1)) > 1
    THEN <<[j \in 1..Len(ts[1]) |->
               IF ~Truthy(Get(ts[1][j], "correlation"))
               THEN Put(ts[1][j], "correlation", False)
               ELSE ts[1][j]]>>
    ELSE ts

\* Faulty variant of Strongest: the range may shrink to two documents.
RECURSIVE StrongestToPair(_, _, _, _, _)
StrongestToPair(ts, cfg, i, k, coef) ==
    LET max == coef
        shorter == CoefOfRange(ts, cfg, i, k - 1)
    IN  IF (k - 1) - i = 0 THEN [k |-> k, coef |-> max]
        ELSE IF CoefGreater(shorter, max) THEN StrongestToPair(ts, cfg, i, k - 1, shorter)
        ELSE [k |-> k, coef |-> max]

\* The do/while of checkSimilarity: the range [i, k] loses its last document
\* as long as the coefficient string grows and more than two documents stay.
RECURSIVE Strongest(_, _, _, _, _)
Strongest(ts, cfg, i, k, coef) ==
    LET max == coef
        shorter == CoefOfRange(ts, cfg, i, k - 1)
    IN  IF (k - 1) - i = 1 THEN [k |-> k, coef |-> max]
        ELSE IF CoefGreater(shorter, max) THEN Strongest(ts, cfg, i, k - 1, shorter)
        ELSE [k |-> k, coef |-> max]

\* i = k; break; and the i++ of the outer loop.
NextStart(k) == k + 1

\* The two for loops of checkSimilarity, from the pair (i, k) on: the series
\* they leave and the calls of markCorrelation they made, each with the
\* candidate range [i, k0] it came from.
RECURSIVE SimilarityLoops(_, _, _, _, _, _)
SimilarityLoops(ts, cfg, opts, i, k, marked) ==
    LET ts_size == getTSSize(ts, 1)
        coef == CoefOfRange(ts, cfg, i, k)
        found == IF opts._max_coef THEN Strongest(ts, cfg, i, k, coef)
                 ELSE [k |-> k, coef |-> coef]
    IN  IF i >= ts_size - 3 THEN [ts |-> ts, marked |-> marked]
        ELSE IF k <= i \/ k - i = 1
             THEN SimilarityLoops(ts, cfg, opts, i + 1, ts_size - 1, marked)
        ELSE IF AboveThreshold(coef, opts._count_negative)
             THEN SimilarityLoops(
                      markCorrelation(ts, cfg, i, found.k, CoefNumber(found.coef)),
                      cfg, opts, NextStart(found.k), ts_size - 1,
                      Append(marked, [i |-> i, k0 |-> k, k |-> found.k, coef |-> found.coef]))
        ELSE SimilarityLoops(ts, cfg, opts, i, k - 1, marked)

SimilarityError == "Similarity cannot be checked for nominal attributes"

\* The outcome of checkSimilarity(): that of a public call, and the calls
\* markCorrelation.call(this, [i, k], coef) it made.
SimilarityOutcome(out, marked) ==
    [ts |-> out.ts, cfg |-> out.cfg, callbacks |-> out.callbacks, thrown |-> out.thrown,
     homog |-> out.homog, marked |-> marked]

\* The part of checkSimilarity() behind its tests: the loops, then
\* markCorrelation.call(this) and the callback.
SimilaritySearch(ts, cfg, opts) ==
    \* the loops run once
    LET ran == CHOOSE r \in {SimilarityLoops(ts, cfg, opts, 0, getTSSize(ts, 1) - 1, <<>>)} : TRUE
    IN  SimilarityOutcome(Outcome(MarkRest(ran.ts, cfg), cfg, <<"null">>, FALSE, "none"),
                          ran.marked)

\* checkSimilarity(callback)
checkSimilarity(ts, cfg, opts) ==
    IF opts._correlation_activated /\ getNbTS(ts) = 1 /\ Len(getFields(cfg, 1)) = 2
    THEN IF isNominal(ts, cfg) = "throw"
         THEN SimilarityOutcome(Outcome(ts, cfg, <<>>, TRUE, "none"), <<>>)
         ELSE IF isNominal(ts, cfg) = "true"
              THEN SimilarityOutcome(Outcome(ts, cfg, <<SimilarityError>>, FALSE, "none"), <<>>)
         ELSE SimilaritySearch(ts, cfg, opts)
    ELSE SimilarityOutcome(Outcome(ts, cfg, <<"null">>, FALSE, "none"), <<>>)

(***************************************************************************)
(* checkSimilarity() called directly on a constructed set.  The field a    *)
(* counts the documents, the field b follows a profile of levels.          *)
(***************************************************************************)
Levels == 1..2

Profiles == UNION {[1..n -> Levels] : n \in 1..MaxDocs}

SimilarityKinds == {"numeric", "nominal", "one field", "two series"}

SimilaritySeries(profile, kind) ==
    [j \in 1..Len(profile) |->
        [g \in {"a", "b", "year"} |->
            CASE g = "a" -> Num(j)
              [] g = "b" -> IF kind = "nominal" THEN Str(<<"x">>) ELSE Num(profile[j])
              [] OTHER -> DateStr(j, ISO_FORMAT)]]

SimilarityConfig(kind) ==
    [fields |-> IF kind = "one field" THEN <<[name |-> "a", quantum |-> Undefined]>>
                ELSE <<[name |-> "a", quantum |-> Undefined],
                       [name |-> "b", quantum |-> Undefined]>>,
     timestamp |-> [name |-> "year", format |-> ISO_FORMAT, quantum |-> "none"]]

\* The members the constructor sets from the correlation section.
SimilarityOptions(activated, count_negative, max_coef) ==
    [NoOptions EXCEPT !._correlation_activated = activated,
                      !._count_negative = count_negative,
                      !._max_coef = max_coef]

InitSimilarity ==
    /\ \E profile \in Profiles, kind \in SimilarityKinds,
          activated \in BOOLEAN, count_negative \in BOOLEAN, max_coef \in BOOLEAN :
        /\ kind # "numeric" => Len(profile) <= 2 /\ activated
        /\ ~activated => ~count_negative /\ ~max_coef /\ Len(profile) <= 2
        /\ timeseries = [i \in 1..(IF kind = "two series" THEN 2 ELSE 1) |->
                            SimilaritySeries(profile, kind)]
        /\ config = [i \in 1..(IF kind = "two series" THEN 2 ELSE 1) |->
                        SimilarityConfig(kind)]
        /\ options = SimilarityOptions(activated, count_negative, max_coef)
    /\ op = NoCall
    /\ callbacks = <<>>
    /\ thrown = FALSE
    /\ homog = "none"
    /\ rnd = <<>>
    /\ old_timeseries = <<>>
    /\ old_config = <<>>
    /\ smoother = NoSmoother
    /\ smoothed = NoSmoothed
    /\ pc = "idle"
    /\ trace = <<>>

\* tsp.checkSimilarity(callback); trace lists the ranges the call marked.
CheckSimilarity ==
    \E out \in {checkSimilarity(timeseries, config, options)} :
        /\ op' = Called("checkSimilarity", 0, 0, NoField)
        /\ timeseries' = out.ts
        /\ config' = out.cfg
        /\ callbacks' = out.callbacks
        /\ thrown' = out.thrown
        /\ homog' = out.homog
        /\ old_timeseries' = timeseries
        /\ old_config' = config
        /\ rnd' = <<>>
        /\ trace' = out.marked
        /\ UNCHANGED <<smoother, smoothed, options, pc>>

NextSimilarity == CheckSimilarity

SpecSimilarity == InitSimilarity /\ [][NextSimilarity]_vars

\* checkSimilarity() was called with correlation enabled on one series of two
\* fields whose values are all numbers.
SimilarityChecked ==
    /\ op.name = "checkSimilarity"
    /\ options._correlation_activated
    /\ getNbTS(old_timeseries) = 1
    /\ Len(getFields(old_config, 1)) = 2
    /\ \A j \in 1..Len(old_timeseries[1]) : \A x \in 1..2 :
          Get(old_timeseries[1][j], getFields(old_config, 1)[x]).k = "num"

\* The documents i..k (counted from 0) all carry the coefficient of the
\* range i..k as their correlation.
CarriesCoefficient(i, k) ==
    \A m \in i..k :
        Get(timeseries[1][m + 1], "correlation")
            = CoefNumber(CoefOfRange(old_timeseries, old_config, i, k))

(***************************************************************************)
(* C20.  After checkSimilarity() on a single series with correlation       *)
(* enabled and exactly two numeric value fields, every record has a        *)
(* correlation field: either false, or a number that is the coefficient    *)
(* of a range of at least three records containing the record, carried by  *)
(* every record of that range.                                             *)
(***************************************************************************)
C20_EveryRecordMarked ==
    SimilarityChecked =>
        /\ ~thrown
        /\ NoErrorReported
        /\ Len(timeseries) = 1 /\ Len(timeseries[1]) = Len(old_timeseries[1])
        /\ \A j \in 1..Len(timeseries[1]) :
              /\ "correlation" \in DOMAIN timeseries[1][j]
              /\ \/ timeseries[1][j]["correlation"] = False
                 \/ /\ timeseries[1][j]["correlation"].k = "num"
                    /\ \E i \in 0..(j - 1), k \in (j - 1)..(Len(timeseries[1]) - 1) :
                          k - i >= 2 /\ CarriesCoefficient(i, k)

\* A checked series with a marked range and a record outside of it.
C20_Witness ==
    /\ SimilarityChecked
    /\ \E j \in 1..Len(timeseries[1]) : Get(timeseries[1][j], "correlation") = False
    /\ \E j \in 1..Len(timeseries[1]) : Get(timeseries[1][j], "correlation").k = "num"
\* Two series carry different timestamps at one of the drawn positions.
MismatchAtDraw(ts, cfg, draw) ==
    \E x \in 1..3 : \E i1, i2 \in 1..Len(ts) :
        getTimestamp(ts, cfg, i1, draw[x]) # getTimestamp(ts, cfg, i2, draw[x])

(***************************************************************************)
(* C21.  For a set of several series of equal length, isHomogeneous()      *)
(* returns false whenever two series carry different timestamps at one of  *)
(* the three drawn positions, also when an index is drawn more than once.  *)
(* Fails: the test counts the distinct timestamps of all the samples and   *)
(* accepts up to three, so one index drawn three times hides a mismatch    *)
(* between two series.                                                     *)
(***************************************************************************)
C21_MismatchIsInhomogeneous ==
    (/\ op.name = "isHomogeneous"
     /\ Len(old_timeseries) > 1
     /\ \A i \in 1..Len(old_timeseries) : Len(old_timeseries[i]) = Len(old_timeseries[1])
     /\ Len(old_timeseries[1]) > 0
     /\ MismatchAtDraw(old_timeseries, old_config, rnd))
        => homog = "false"
\* The documents of window r (of size n) of the series i before the call.
WindowIndexes(i, n, r) ==
    {m \in 0..(Len(old_timeseries[i]) - 1) : m >= r * n /\ m < (r + 1) * n}

\* Every document of the series i held a number in the target field.
NumericTarget(i, target_field) ==
    \A j \in 1..Len(old_timeseries[i]) : Get(old_timeseries[i][j], target_field).k = "num"

\* Document m is the first of window r whose target value no document of the
\* window exceeds (less = TRUE) or falls below (less = FALSE).
FirstExtreme(i, n, r, m, target_field, largest) ==
    LET value(x) == Get(old_timeseries[i][x + 1], target_field)
    IN  /\ m \in WindowIndexes(i, n, r)
        /\ \A x \in WindowIndexes(i, n, r) :
              IF largest THEN ~NumLess(value(m), value(x)) ELSE ~NumLess(value(x), value(m))
        /\ \A x \in WindowIndexes(i, n, r) : x < m => value(x) # value(m)

(***************************************************************************)
(* C22.  For a homogeneous set, a window size n > 1 and a set target       *)
(* field, the max (min) reduction outputs for each window [r*n, r*n + n)   *)
(* clipped to the length of the series the record with the largest         *)
(* (smallest) number in the target field, and the one with the lowest      *)
(* index when several records of the window hold that number.              *)
(***************************************************************************)
C22_ExtremeOfEachWindow ==
    (/\ op.name = "undersample" /\ op.type \in {ReduceEnum.max, ReduceEnum.min}
     /\ op.skipsize > 1 /\ op.target_field # NoField
     /\ homog = "true" /\ NoErrorReported /\ ~thrown)
        => /\ Len(timeseries) = Len(old_timeseries)
           /\ \A i \in 1..Len(timeseries) :
                /\ Len(timeseries[i]) = CeilDiv(Len(old_timeseries[i]), op.skipsize)
                /\ NumericTarget(i, op.target_field) =>
                      \A r \in 0..(Len(timeseries[i]) - 1) :
                          \E m \in WindowIndexes(i, op.skipsize, r) :
                              /\ timeseries[i][r + 1] = old_timeseries[i][m + 1]
                              /\ FirstExtreme(i, op.skipsize, r, m, op.target_field,
                                              op.type = ReduceEnum.max)

\* A max reduction whose first window holds its largest number twice: the
\* first of the two records is the output.
C22_Witness ==
    /\ op.name = "undersample" /\ op.type = ReduceEnum.max /\ op.skipsize = 2
    /\ op.target_field = "a" /\ homog = "true" /\ NoErrorReported
    /\ Len(old_timeseries) = 2
    /\ Len(old_timeseries[1]) = 3 /\ NumericTarget(1, "a")
    /\ old_timeseries[1][1]["a"] = Num(2)
    /\ old_timeseries[1][2]["a"] = Num(2)
    /\ timeseries[1] = <<old_timeseries[1][1], old_timeseries[1][3]>>
\* The sample indexes the scan of smooth() reads for the instant t, and the
\* two it reads to measure the gap of the bracket.
BracketReads(dates, t) ==
    LET stop == Scan(dates, t, 0)
    IN  (0..(stop.i - 1)) \cup {stop.i - 2, stop.i - 1}

\* x is strictly between the whole numbers p and p + 1.
StrictlyInside(x, p) == x.k = "num" /\ p * x.d < x.n /\ x.n < (p + 1) * x.d

(***************************************************************************)
(* C23.  On a learned interpolant with strictly increasing sample          *)
(* timestamps T, smooth(t) with T[p] < t < T[p+1] evaluates the curve at   *)
(* p + (t - T[p]) / (T[p+1] - T[p]), strictly between p and p + 1, and     *)
(* the scan reads no sample index below 0 or from the length on.           *)
(***************************************************************************)
C23_FractionalPosition ==
    (SmoothedLearned /\ StrictlyIncreasing(smoother._dates_array)) =>
        \A p \in 0..(smoother._nb_ts - 2) :
            LET T == smoother._dates_array
                t == SmoothedInstant
            IN  (T[p + 1].t < t /\ t < T[p + 2].t) =>
                    /\ ~smoothed.thrown
                    /\ smoothed.error = "null"
                    /\ smoothed.position
                          = Q(p * (T[p + 2].t - T[p + 1].t) + (t - T[p + 1].t),
                              T[p + 2].t - T[p + 1].t)
                    /\ StrictlyInside(smoothed.position, p)
                    /\ BracketReads(T, t) \subseteq 0..(smoother._nb_ts - 1)

\* A date in the middle of the second gap of a three-sample series.
C23_Witness ==
    /\ SmoothedLearned
    /\ StrictlyIncreasing(smoother._dates_array)
    /\ smoother._nb_ts = 3
    /\ smoother._dates_array[2].t = 2
    /\ smoother._dates_array[3].t = 4
    /\ SmoothedInstant = 3
    /\ smoothed.position = Q(3, 2)
    /\ ~smoothed.thrown
(***************************************************************************)
(* Vocabulary of the properties of one checkSimilarity() run: trace lists  *)
(* the ranges [i, k] it marked, each with the end k0 of the candidate      *)
(* range and the coefficient string coef handed to markCorrelation.        *)
(***************************************************************************)
OldCoef(i, k) == CoefOfRange(old_timeseries, old_config, i, k)

\* The number a coefficient string stands for, in ten-thousandths.
CoefValue(coef) == IF coef.neg THEN 0 - coef.mag ELSE coef.mag

\* x > y on the numbers two coefficient strings stand for.
NumericGreater(x, y) == ~x.nan /\ ~y.nan /\ CoefValue(x) > CoefValue(y)

InMarkedRange(j) == \E x \in 1..Len(trace) : trace[x].i <= j /\ j <= trace[x].k

(***************************************************************************)
(* C24.  Every range that checkSimilarity() marks with a coefficient holds *)
(* at least three consecutive records (k - i >= 2), candidates and ranges  *)
(* left by the shrinking alike, and a record carries a number only inside  *)
(* such a range.                                                           *)
(***************************************************************************)
C24_RangesHoldThreeRecords ==
    SimilarityChecked =>
        /\ \A x \in 1..Len(trace) :
              /\ trace[x].i >= 0 /\ trace[x].k <= Len(timeseries[1]) - 1
              /\ trace[x].k - trace[x].i >= 2
              /\ trace[x].k0 - trace[x].i >= 2
        /\ \A j \in 0..(Len(timeseries[1]) - 1) :
              Get(timeseries[1][j + 1], "correlation").k = "num" => InMarkedRange(j)

\* A run that prefers the strongest range and shrank a candidate down to
\* three records.
C24_Witness ==
    /\ SimilarityChecked
    /\ options._max_coef
    /\ \E x \in 1..Len(trace) :
          /\ trace[x].k0 > trace[x].k
          /\ trace[x].k = trace[x].i + 2
          /\ Get(timeseries[1][trace[x].k + 1], "correlation").k = "num"

(***************************************************************************)
(* C25.  Every start index up to and including L - 3 that is not inside a  *)
(* range detected earlier is examined: when the last three records exceed  *)
(* the threshold and the record L - 3 lies in no range that starts before  *)
(* it, the range [L - 3, L - 1] is marked with its coefficient; so it is   *)
(* for a series of exactly three records.                                  *)
(* Fails: the outer loop stops before L - 3, so a series of three          *)
(* correlated records is marked false throughout.                          *)
(***************************************************************************)
C25_LastThreeExamined ==
    SimilarityChecked =>
        LET L == Len(old_timeseries[1])
        IN  (/\ L >= 3
             /\ AboveThreshold(OldCoef(L - 3, L - 1), options._count_negative)
             /\ \A x \in 1..Len(trace) : trace[x].i < L - 3 => trace[x].k < L - 3)
                => /\ \E x \in 1..Len(trace) : trace[x].i = L - 3 /\ trace[x].k = L - 1
                   /\ \A j \in (L - 3)..(L - 1) :
                         Get(timeseries[1][j + 1], "correlation")
                             = CoefNumber(OldCoef(L - 3, L - 1))

(***************************************************************************)
(* C26.  The ranges marked by one checkSimilarity() run are found in       *)
(* increasing order and are pairwise disjoint (a later range starts after  *)
(* the end of every earlier one), and every record of a range still        *)
(* carries the coefficient the range wrote when the call returns.          *)
(***************************************************************************)
C26_RangesDisjointAndKept ==
    SimilarityChecked =>
        /\ \A x, y \in 1..Len(trace) : x < y => trace[x].k < trace[y].i
        /\ \A x \in 1..Len(trace) : \A j \in trace[x].i..trace[x].k :
              Get(timeseries[1][j + 1], "correlation") = CoefNumber(trace[x].coef)

(***************************************************************************)
(* C27.  With the strongest range preferred, a candidate [i, k0] ends on a *)
(* range [i, k1], i + 2 <= k1 <= k0, such that the coefficient grows at    *)
(* each shrink from k0 down to k1 and the shrink to k1 - 1 does not make   *)
(* it grow or would leave two records; the coefficient written is that of  *)
(* [i, k1].                                                                *)
(***************************************************************************)
C27_ShrinksWhileGrowing ==
    (SimilarityChecked /\ options._max_coef) =>
        \A x \in 1..Len(trace) :
            LET i == trace[x].i
                k1 == trace[x].k
            IN  /\ i + 2 <= k1 /\ k1 <= trace[x].k0
                /\ \A k \in k1..(trace[x].k0 - 1) : NumericGreater(OldCoef(i, k), OldCoef(i, k + 1))
                /\ (k1 - 1) - i = 1 \/ ~NumericGreater(OldCoef(i, k1 - 1), OldCoef(i, k1))
                /\ trace[x].coef = OldCoef(i, k1)
(***************************************************************************)
(* toISO() and renameField() called directly on a constructed set.         *)
(***************************************************************************)
\* tsp.toISO(callback)
ToISO ==
    /\ op.name = "new"
    /\ rnd' = <<>>
    /\ Apply(Called("toISO", 0, 0, NoField), toISO(timeseries, config))

NewNames == {TIMESTAMP_FIELD, "value"}

\* tsp.renameField(ts_index, field_name, new_name, callback)
RenameField ==
    /\ op.name = "new"
    /\ \E ts_index \in 1..Len(timeseries), field_name \in {"a", "b", "year"},
          new_name \in NewNames :
        /\ rnd' = <<>>
        /\ Apply([name |-> "renameField", ts_index |-> ts_index,
                  field_name |-> field_name, new_name |-> new_name],
                 renameField(timeseries, config, ts_index, field_name, new_name))

NextSteps == ToISO \/ RenameField

SpecSteps == InitCut /\ [][NextSteps]_vars

MutatingSteps ==
    {"cut", "toISO", "interpolate", "intersect", "merge", "renameField", "undersample",
     "quantize", "checkSimilarity"}

(***************************************************************************)
(* C28.  Every public mutating step called with a callback invokes it      *)
(* exactly once per call, with an error or with the data.                  *)
(* Fails: toISO() on a set whose schemas already declare the ISO format    *)
(* returns without invoking its callback.                                  *)
(***************************************************************************)
C28_CallbackExactlyOnce ==
    op.name \in MutatingSteps => Len(callbacks) = 1

\* Some declared value field of the series i is named f.
IsValueField(cfg, i, f) == \E x \in 1..Len(cfg[i].fields) : cfg[i].fields[x].name = f

(***************************************************************************)
(* C29.  renameField(ts, old, new) on a value field moves the value of old *)
(* to new in every record of the series ts and leaves the schema's         *)
(* timestamp field name as it was, so every record of the set still has a  *)
(* valid timestamp in the field getTimestampField() names.                 *)
(* Fails: the schema's timestamp name is set to the new name whatever      *)
(* field is renamed.                                                       *)
(***************************************************************************)
C29_RenameKeepsTimestampField ==
    (/\ op.name = "renameField"
     /\ IsValueField(old_config, op.ts_index, op.field_name)
     /\ op.field_name # getTimestampField(old_config, op.ts_index))
        => /\ NoErrorReported /\ ~thrown
           /\ \A j \in 1..Len(timeseries[op.ts_index]) :
                 Get(timeseries[op.ts_index][j], op.new_name)
                     = Get(old_timeseries[op.ts_index][j], op.field_name)
           /\ \A i \in 1..Len(config) :
                 getTimestampField(config, i) = getTimestampField(old_config, i)
           /\ \A i \in 1..Len(timeseries) : \A j \in 0..(Len(timeseries[i]) - 1) :
                 getTimestamp(timeseries, config, i, j).valid
====
